---- MODULE Spec2Model ----
(***************************************************************************)
(* Model of the XenoComm coordination service.                             *)
(*                                                                         *)
(* Part C: the negotiation state machine                                   *)
(* (src/mcp_server/xenocomm_mcp/negotiation.py, class NegotiationEngine).  *)
(*                                                                         *)
(* Time is counted in ticks; one tick stands for a fixed number of         *)
(* milliseconds of datetime.utcnow().  A call that raises ValueError       *)
(* leaves the engine as it was: it is a step that changes nothing.         *)
(* lastOp names the last step that was not such a call.                    *)
(*                                                                         *)
(* The sessions of an engine share nothing but the two collections that   *)
(* hold them, so the model follows the sessions of SessionIds.  NegSpec    *)
(* runs the proposal/counter/finalize operations with the clock stopped;   *)
(* TimeoutSpec runs every operation with the clock running.                *)
(* Fields of the source that none of the modelled operations reads        *)
(* (created_at, updated_at, alignment_score, the params and timestamp of   *)
(* a NegotiationRound, the fields of NegotiableParams that validate() does *)
(* not test) are left out of the records; metadata is the set of its keys. *)
(*                                                                         *)
(* Part D: the emergence engine                                            *)
(* (src/mcp_server/xenocomm_mcp/emergence.py, classes CircuitBreaker and   *)
(* EmergenceEngine).  BreakerSpec runs a circuit breaker on its own,       *)
(* LifecycleSpec the rollout of two variants, PerformanceSpec the rollout  *)
(* and the metrics of one variant, ExperimentSpec an A/B experiment        *)
(* between two variants.  Each specification leaves the other engine as    *)
(* it was constructed.                                                     *)
(*                                                                         *)
(* Part E: the orchestrator, the workflows and the server                  *)
(* (alignment.py, orchestrator.py, workflows.py, server.py, observation.py *)
(* of src/mcp_server/xenocomm_mcp).  AlignSpec registers agents and        *)
(* initiates collaborations, with the alignment scores computed as         *)
(* fractions; HookSpec adds hooks and lets the orchestrator trigger them;  *)
(* ThreadSpec interleaves the statements of two callers of                 *)
(* check_all_timeouts, which hold no lock; WorkflowSpec and OnboardSpec    *)
(* run the executions of the workflows step by step, with the engines      *)
(* called from outside between the steps; ToolSpec calls the negotiation   *)
(* tools of the server; BusSpec calls the event bus.  A call that raises   *)
(* is recorded in the log of its part (orchLog, wfLog, toolLog).           *)
(* BusThreadSpec interleaves the statements of two callers of the event    *)
(* bus under its lock; ManagerSpec runs the observation manager with its   *)
(* persistence and its alerts (analytics.py), writes to the file system    *)
(* succeeding; EvolutionSpec calls evolve_session_protocol and             *)
(* report_session_metrics on a collaboration, SessionSpec suspends,        *)
(* resumes and closes collaborations.                                      *)
(*                                                                         *)
(* Part F: the Python bindings (src/bindings/python/xenocomm).             *)
(* LimiterSpec interleaves the statements of two threads that call         *)
(* RateLimiter.acquire, with the clock in ticks that do not run            *)
(* backwards; CacheSpec calls the CacheManager with the clock running.     *)
(***************************************************************************)
EXTENDS Integers, Sequences, FiniteSets, TLC

None == "None"

\* ---------------------------------------------------------------- bounds
MaxTime == 4
DefaultTimeoutTicks == 1
MaxRoundsCfg == 2
AutoExtendCfg == 1
MaxExtendCount == 1
MaxCounters == 3
MaxTimedCounters == 1

\* the arguments the callers of the model pass besides the params
TimeoutChoices == {0}

Reasons == {None, "bye"}

\* ------------------------------------------------- NegotiableParams
SUPPORTED_DATA_FORMATS ==
    {"json", "msgpack", "protobuf", "vector_float32", "vector_int8", "cbor"}

SUPPORTED_COMPRESSION == {None, "gzip", "lz4", "zstd", "snappy"}

SUPPORTED_ENCRYPTION == {"none", "tls", "aes256", "chacha20"}

SUPPORTED_ERROR_CORRECTION == {"none", "checksum", "crc32", "reed_solomon"}

\* NegotiableParams(): the dataclass defaults
DefaultParams ==
    [data_format |-> "json", compression |-> None, encryption |-> "tls",
     error_correction |-> "checksum", max_message_size |-> 1024 * 1024,
     timeout_ms |-> 30000, priority |-> 5]

\* the params the callers of the model pass: the defaults (encryption tls),
\* the defaults without encryption, and one that validate() rejects
ValidParamChoices ==
    { DefaultParams, [DefaultParams EXCEPT !.encryption = "none"] }

ParamChoices ==
    ValidParamChoices \cup { [DefaultParams EXCEPT !.max_message_size = 512] }

\* NegotiableParams.validate: the list of errors, as a set
ValidateErrors(p) ==
    (IF p.data_format \notin SUPPORTED_DATA_FORMATS
        THEN {"data_format"} ELSE {})
    \cup (IF p.compression \notin SUPPORTED_COMPRESSION
        THEN {"compression"} ELSE {})
    \cup (IF p.encryption \notin SUPPORTED_ENCRYPTION
        THEN {"encryption"} ELSE {})
    \cup (IF p.error_correction \notin SUPPORTED_ERROR_CORRECTION
        THEN {"error_correction"} ELSE {})
    \cup (IF p.max_message_size < 1024 \/ p.max_message_size > 100 * 1024 * 1024
        THEN {"max_message_size"} ELSE {})
    \cup (IF p.timeout_ms < 1000 \/ p.timeout_ms > 600000
        THEN {"timeout_ms"} ELSE {})
    \cup (IF p.priority < 1 \/ p.priority > 10
        THEN {"priority"} ELSE {})

validate(p) == ValidateErrors(p) = {}

\* NegotiableParams.check_compatibility, the encryption entry
EncryptionCompatibility(p, other) ==
    IF p.encryption = other.encryption THEN "compatible"
    ELSE IF p.encryption = "none" \/ other.encryption = "none" THEN "incompatible"
    ELSE "negotiable"

\* ------------------------------------------------- NegotiationConfig
TimeoutPolicy == {"fail", "extend", "notify", "auto_accept"}

ConfigSpace ==
    [default_timeout_ms : {DefaultTimeoutTicks},
     max_rounds : {MaxRoundsCfg},
     timeout_policy : TimeoutPolicy,
     auto_extend_count : {AutoExtendCfg},
     require_validation : BOOLEAN,
     track_history : BOOLEAN]

\* ------------------------------------------------- state
VARIABLES
    config,        \* NegotiationEngine.config
    sessions,      \* NegotiationEngine.sessions: session_id -> session
    completed,     \* NegotiationEngine._completed_sessions
    nextId,        \* number of session ids handed out by uuid4 so far
    now,           \* datetime.utcnow(), in ticks
    lastOp,        \* the last step: the operation that returned, its session
                   \* id, its caller, the sessions it reported as timed out
    hist           \* per session: the counter-proposals and automatic
                   \* extensions the engine has accepted, the counter the
                   \* initiator accepted last, whether the responder has
                   \* answered (history only)

negVars == <<config, sessions, completed, nextId, now, lastOp, hist>>

Agents == {"a1", "a2", "a3"}

\* the two parties of the sessions of the model; a3 is never a party
Initiators == {"a1"}

Responders == {"a2"}

\* the session ids uuid4 hands out, in this order
SessionIds == {1}

\* Optional[NegotiableParams] = None
NoParams == [none |-> TRUE]

TerminalStates == {"finalized", "failed", "timed_out", "closed"}

IsTerminal(s) == s.state \in TerminalStates

\* NegotiationSession.add_round
add_round(s, proposer_id, response) ==
    [s EXCEPT !.rounds = Append(@, [round_number |-> Len(@) + 1,
                                    proposer_id |-> proposer_id,
                                    response |-> response])]

\* NegotiationSession.is_expired at time t (expires_at is set by
\* initiate_session and never cleared)
is_expired(s, t) == t > s.expires_at

\* the record of a call: ret lists the sessions the call reported as timed out
Op(op, sid, agent, ret) ==
    [op |-> op, sid |-> sid, agent |-> agent, ret |-> ret]

NoHist ==
    [last_counter |-> NoParams, counters |-> 0, auto_extends |-> 0,
     accepted |-> NoParams, responded |-> FALSE]

Init ==
    /\ config \in ConfigSpace
    /\ sessions = << >>
    /\ completed = << >>
    /\ nextId = 0
    /\ now = 0
    /\ lastOp = Op("init", 0, None, << >>)
    /\ hist = [i \in SessionIds |-> NoHist]

\* NegotiationEngine._get_session finds the session
HasSession(sid) == sid \in DOMAIN sessions

\* ------------------------------------------------- operations
\* the clock advances
Tick ==
    /\ now < MaxTime
    /\ now' = now + 1
    /\ lastOp' = Op("tick", 0, None, << >>)
    /\ UNCHANGED <<config, sessions, completed, nextId, hist>>

\* a call that raised ValueError(err): nothing changes
Raise(err) == UNCHANGED negVars

\* a call that returned after replacing session sid by s
Return(op, sid, agent, s) ==
    /\ sessions' = [sessions EXCEPT ![sid] = s]
    /\ lastOp' = Op(op, sid, agent, << >>)
    /\ UNCHANGED <<config, completed, nextId, now>>

NewSession(sid, initiator_id, responder_id, proposed_params, expires_at) ==
    [session_id |-> sid, initiator_id |-> initiator_id,
     responder_id |-> responder_id, state |-> "awaiting_response",
     proposed_params |-> proposed_params, counter_params |-> NoParams,
     final_params |-> NoParams, expires_at |-> expires_at,
     failure_reason |-> None, rounds |-> << >>, extend_count |-> 0,
     metadata |-> {}]

\* timeout_ms = 0 stands for both None and 0 ("timeout_ms or default")
initiate_session(initiator_id, responder_id, proposed_params, timeout_ms) ==
    /\ nextId + 1 \in SessionIds
    /\ IF config.require_validation /\ ~validate(proposed_params)
       THEN Raise("invalid_params")
       ELSE LET sid == nextId + 1
                timeout == IF timeout_ms = 0
                           THEN config.default_timeout_ms ELSE timeout_ms
                s0 == NewSession(sid, initiator_id, responder_id,
                                 proposed_params, now + timeout)
                s == IF config.track_history
                     THEN add_round(s0, initiator_id, None) ELSE s0
            IN /\ sessions' = (sid :> s) @@ sessions
               /\ nextId' = sid
               /\ lastOp' = Op("initiate_session", sid, initiator_id, << >>)
               /\ UNCHANGED <<config, completed, now, hist>>

receive_proposal(sid, responder_id) ==
    IF ~HasSession(sid)
    THEN Raise("not_found")
    ELSE IF sessions[sid].responder_id # responder_id
    THEN Raise("not_responder")
    ELSE /\ Return("receive_proposal", sid, responder_id,
                   [sessions[sid] EXCEPT !.state = "proposal_received"])
         /\ UNCHANGED hist

respond_accept(sid, responder_id) ==
    IF ~HasSession(sid)
    THEN Raise("not_found")
    ELSE IF sessions[sid].responder_id # responder_id
    THEN Raise("not_responder")
    ELSE IF sessions[sid].state \notin {"proposal_received", "counter_received"}
    THEN Raise("bad_state")
    ELSE /\ Return("respond_accept", sid, responder_id,
                   [sessions[sid] EXCEPT !.state = "awaiting_finalization"])
         /\ hist' = [hist EXCEPT ![sid].responded = TRUE]

\* the history of session sid after it took counter-proposal p
Countered(sid, p) ==
    [hist EXCEPT ![sid].last_counter = p, ![sid].counters = @ + 1]

respond_counter(sid, responder_id, counter_params) ==
    IF ~HasSession(sid)
    THEN Raise("not_found")
    ELSE IF sessions[sid].responder_id # responder_id
    THEN Raise("not_responder")
    ELSE IF sessions[sid].state # "proposal_received"
    THEN Raise("bad_state")
    ELSE /\ Return("respond_counter", sid, responder_id,
                   [sessions[sid] EXCEPT !.counter_params = counter_params,
                                         !.state = "awaiting_finalization"])
         /\ hist' = [Countered(sid, counter_params)
                         EXCEPT ![sid].responded = TRUE]

\* respond_reject without its check of the caller
respond_reject_any_caller(sid, responder_id, reason) ==
    IF ~HasSession(sid)
    THEN Raise("not_found")
    ELSE /\ Return("respond_reject", sid, responder_id,
                   [sessions[sid] EXCEPT
                       !.state = "failed",
                       !.failure_reason = IF reason = None
                                          THEN "Proposal rejected" ELSE reason])
         /\ UNCHANGED hist

\* reason = None stands for both None and "" ("reason or 'Proposal rejected'")
respond_reject(sid, responder_id, reason) ==
    IF ~HasSession(sid)
    THEN Raise("not_found")
    ELSE IF sessions[sid].responder_id # responder_id
    THEN Raise("not_responder")
    ELSE /\ Return("respond_reject", sid, responder_id,
                   [sessions[sid] EXCEPT
                       !.state = "failed",
                       !.failure_reason = IF reason = None
                                          THEN "Proposal rejected" ELSE reason])
         /\ UNCHANGED hist

accept_counter(sid, initiator_id) ==
    IF ~HasSession(sid)
    THEN Raise("not_found")
    ELSE IF sessions[sid].initiator_id # initiator_id
    THEN Raise("not_initiator")
    ELSE IF sessions[sid].state # "awaiting_finalization"
    THEN Raise("bad_state")
    ELSE IF sessions[sid].counter_params = NoParams
    THEN Raise("no_counter")
    ELSE /\ Return("accept_counter", sid, initiator_id,
                   [sessions[sid] EXCEPT !.state = "finalizing"])
         /\ hist' = [hist EXCEPT
                         ![sid].accepted = sessions[sid].counter_params]

\* the final params without the counter-proposal
FinalParams_proposed_only(s) == s.proposed_params

\* "session.counter_params or session.proposed_params": a NegotiableParams
\* instance is always truthy, so only None falls through
FinalParams(s) ==
    IF s.counter_params # NoParams THEN s.counter_params ELSE s.proposed_params

\* finalize_session without its check of the state
finalize_session_from_any_state(sid, initiator_id) ==
    IF ~HasSession(sid)
    THEN Raise("not_found")
    ELSE IF sessions[sid].initiator_id # initiator_id
    THEN Raise("not_initiator")
    ELSE /\ Return("finalize_session", sid, initiator_id,
                   [sessions[sid] EXCEPT !.final_params = FinalParams(sessions[sid]),
                                         !.state = "finalized"])
         /\ UNCHANGED hist

finalize_session(sid, initiator_id) ==
    IF ~HasSession(sid)
    THEN Raise("not_found")
    ELSE IF sessions[sid].initiator_id # initiator_id
    THEN Raise("not_initiator")
    ELSE IF sessions[sid].state \notin {"awaiting_finalization", "finalizing"}
    THEN Raise("bad_state")
    ELSE /\ Return("finalize_session", sid, initiator_id,
                   [sessions[sid] EXCEPT !.final_params = FinalParams(sessions[sid]),
                                         !.state = "finalized"])
         /\ UNCHANGED hist

close_session(sid, agent_id, reason) ==
    IF ~HasSession(sid)
    THEN Raise("not_found")
    ELSE IF agent_id \notin {sessions[sid].initiator_id, sessions[sid].responder_id}
    THEN Raise("not_participant")
    ELSE /\ Return("close_session", sid, agent_id,
                   [sessions[sid] EXCEPT !.state = "closed",
                                         !.failure_reason = reason])
         /\ UNCHANGED hist

\* ------------------------------------------------- timeouts
\* the engine's collections, as one value the timeout handling works on
Engine == [sessions |-> sessions, completed |-> completed, hist |-> hist]

\* NegotiationEngine._archive_session
archive_session(e, s) ==
    [e EXCEPT !.completed = Append(e.completed, s),
              !.sessions = [k \in DOMAIN e.sessions \ {s.session_id} |->
                               e.sessions[k]]]

TimedOutAfter(n) == "Timed out after " \o ToString(n) \o " extensions"

\* the test of the extension count, off by one
CanAutoExtend_off_by_one(s) == s.extend_count <= config.auto_extend_count

\* the EXTEND policy extends the session once more
CanAutoExtend(s) == s.extend_count < config.auto_extend_count

\* NegotiationEngine.check_timeout on an existing session at time t:
\* the engine afterwards and the flag the call returns
CheckTimeout(e, sid, t) ==
    LET s == e.sessions[sid] IN
    IF ~is_expired(s, t)
    THEN [engine |-> e, timed_out |-> FALSE]
    ELSE IF config.timeout_policy = "fail"
    THEN [engine |-> archive_session(e,
                        [s EXCEPT !.state = "timed_out",
                                  !.failure_reason = "Session timed out"]),
          timed_out |-> TRUE]
    ELSE IF config.timeout_policy = "extend"
    THEN IF CanAutoExtend(s)
         THEN [engine |->
                  [e EXCEPT !.sessions[sid].extend_count = @ + 1,
                            !.sessions[sid].expires_at =
                                t + config.default_timeout_ms,
                            !.hist[sid].auto_extends = @ + 1],
               timed_out |-> FALSE]
         ELSE [engine |-> archive_session(e,
                        [s EXCEPT !.state = "timed_out",
                                  !.failure_reason =
                                      TimedOutAfter(s.extend_count)]),
               timed_out |-> TRUE]
    ELSE IF config.timeout_policy = "auto_accept"
    THEN [engine |-> archive_session(e,
                        [s EXCEPT !.final_params = FinalParams(s),
                                  !.state = "finalized",
                                  !.metadata = @ \cup {"auto_accepted"}]),
          timed_out |-> TRUE]
    ELSE [engine |->
             [e EXCEPT !.sessions[sid].metadata = @ \cup {"timeout_notified"}],
          timed_out |-> TRUE]

check_timeout(sid) ==
    IF ~HasSession(sid)
    THEN Raise("not_found")
    ELSE LET r == CheckTimeout(Engine, sid, now) IN
         /\ sessions' = r.engine.sessions
         /\ completed' = r.engine.completed
         /\ hist' = r.engine.hist
         /\ lastOp' = Op("check_timeout", sid, None,
                         IF r.timed_out THEN <<sid>> ELSE << >>)
         /\ UNCHANGED <<config, nextId, now>>

\* the loop of check_all_timeouts over keys, a part of the snapshot
\* list(self.sessions.keys()), which is in order of creation
RECURSIVE Sweep(_, _, _)
Sweep(e, keys, timed_out) ==
    IF keys = {} THEN [engine |-> e, timed_out |-> timed_out]
    ELSE LET i == CHOOSE k \in keys : \A j \in keys : k <= j
             r == CheckTimeout(e, i, now)
         IN Sweep(r.engine, keys \ {i},
                  IF r.timed_out THEN Append(timed_out, i) ELSE timed_out)

check_all_timeouts ==
    LET r == Sweep(Engine, DOMAIN sessions, << >>) IN
    /\ sessions' = r.engine.sessions
    /\ completed' = r.engine.completed
    /\ hist' = r.engine.hist
    /\ lastOp' = Op("check_all_timeouts", 0, None, r.timed_out)
    /\ UNCHANGED <<config, nextId, now>>

\* additional_ms = 0 stands for both None and 0 ("additional_ms or default")
extend_timeout(sid, agent_id, additional_ms) ==
    IF ~HasSession(sid)
    THEN Raise("not_found")
    ELSE IF agent_id \notin {sessions[sid].initiator_id, sessions[sid].responder_id}
    THEN Raise("not_participant")
    ELSE LET extension == IF additional_ms = 0
                          THEN config.default_timeout_ms ELSE additional_ms
         IN /\ sessions[sid].extend_count < MaxExtendCount
            /\ Return("extend_timeout", sid, agent_id,
                      [sessions[sid] EXCEPT !.expires_at = @ + extension,
                                            !.extend_count = @ + 1])
            /\ UNCHANGED hist

\* ------------------------------------------------- multi-round support
submit_counter_proposal(sid, agent_id, counter_params) ==
    IF ~HasSession(sid)
    THEN Raise("not_found")
    ELSE IF agent_id \notin {sessions[sid].initiator_id, sessions[sid].responder_id}
    THEN Raise("not_participant")
    ELSE IF Len(sessions[sid].rounds) >= config.max_rounds
    THEN Raise("max_rounds")
    ELSE IF config.require_validation /\ ~validate(counter_params)
    THEN Raise("invalid_params")
    ELSE LET s0 == [sessions[sid] EXCEPT !.counter_params = counter_params,
                                         !.state = "counter_received"]
             s == IF config.track_history
                  THEN add_round(s0, agent_id, "counter") ELSE s0
         IN /\ Return("submit_counter_proposal", sid, agent_id, s)
            /\ hist' = Countered(sid, counter_params)

\* =================================================================
\* Part D: the emergence engine
\* (src/mcp_server/xenocomm_mcp/emergence.py).
\*
\* A success_rate is held in percent (0.90 is 90), a canary_percentage in
\* tenths (0.1 is 1, 1.0 is 10), a latency in milliseconds and the clock
\* (datetime.utcnow()) in seconds.  No caller of this repository registers
\* an on_rollback or on_promotion hook, so the hook lists stay empty.
\* Fields that no modelled operation reads (description, changes, tags,
\* created_at, updated_at, the percentile latencies, throughput, ...) are
\* left out of the records.

\* ------------------------------------------------- emergence: bounds
\* the clock stops being advanced once it has reached MaxClock seconds
MaxClock == 90
\* calls of record_failure / record_success on the free-standing breaker
MaxFailures == 7
MaxSuccesses == 4
\* the small capacity of the rollback ring (EmergenceConfig.max_rollback_points)
MaxRollbackPoints == 1
\* EmergenceConfig.min_sample_size
MinSampleSize == 2
\* metrics tracked per variant, manual rollbacks per variant, pauses per
\* variant, success rates recorded per side of an experiment
MaxMetrics == 5
MaxLongMetrics == 8
LifecycleMetrics == 1
MaxRollbacks == 2
MaxPauses == 1
MaxSamples == 2

\* the collaboration sessions of a run
MaxCollaborations == 1

\* the callbacks added to the orchestrator, and the variants proposed
\* through it
MaxHooks == 2
MaxProposals == 1

\* the executions of workflows, and the metrics reported for a variant
\* from outside a workflow
MaxExecutions == 2
MaxReports == 2

\* the calls of the negotiation tools
MaxToolCalls == 4

\* the capacity of the event bus, the events published to it, and the
\* entries of its subscriber tables
MaxHistory == 2
MaxPublished == 3
MaxSubscriptions == 2

\* the events that the threads of the event bus publish
MaxThreadEvents == 2

\* the persistence: the events of a log file and of the buffer, and the
\* events handed to it
MaxFileSize == 2
MaxBuffer == 2
MaxSinkEvents == 4

\* the alerts kept (1000 in the source, cut to 500) and the snapshots kept
\* (1000 in the source)
MaxAlerts == 3
KeptAlerts == 2
MaxSnapshots == 2

\* a length that a list with a bound on its length would not exceed
ListCap == 3

\* the rate limiter: its capacity, the calls of acquire, the clock
MaxCapacity == 2
MaxAcquires == 4
MaxLimiterTime == 2

\* the cache manager: the longest ttl, the clock, the calls of get
MaxTtl == 1
MaxCacheTime == 2
MaxGets == 2

\* the steps by which the clock is advanced, in seconds
Delays == {15, 3600}

\* ------------------------------------------------- CircuitBreaker
failure_threshold == 5
reset_timeout_seconds == 30
half_open_success_threshold == 3
flap_threshold == 5
flap_window_minutes == 60

\* last_failure_time of a breaker that has recorded no failure yet
NoTime == -1

VARIABLES
    clock,         \* datetime.utcnow() as the emergence engine reads it
    breaker,       \* a CircuitBreaker used on its own
    breakerLog     \* the last call made on breaker, what can_proceed said,
                   \* and the record_success calls since breaker last
                   \* became half_open (history only)

cbVars == <<clock, breaker, breakerLog>>

\* CircuitBreaker(): the dataclass defaults
CircuitBreaker ==
    [state |-> "closed", failure_count |-> 0, success_count |-> 0,
     last_failure_time |-> NoTime, consecutive_failures |-> 0,
     consecutive_successes |-> 0, state_changes |-> << >>]

transition_to(cb, new_state, t) ==
    IF cb.state # new_state
    THEN [cb EXCEPT !.state_changes = Append(@, <<t, new_state>>),
                    !.state = new_state]
    ELSE cb

\* record_success that closes the breaker from any state that is not closed
record_success_from_any_state(cb, t) ==
    LET c1 == [cb EXCEPT !.success_count = @ + 1,
                         !.consecutive_successes = @ + 1,
                         !.consecutive_failures = 0]
    IN IF /\ c1.state # "closed"
          /\ c1.consecutive_successes >= half_open_success_threshold
       THEN [transition_to(c1, "closed", t) EXCEPT
                !.failure_count = 0, !.success_count = 0,
                !.consecutive_successes = 0]
       ELSE c1

record_success(cb, t) ==
    LET c1 == [cb EXCEPT !.success_count = @ + 1,
                         !.consecutive_successes = @ + 1,
                         !.consecutive_failures = 0]
    IN IF /\ c1.state = "half_open"
          /\ c1.consecutive_successes >= half_open_success_threshold
       THEN [transition_to(c1, "closed", t) EXCEPT
                !.failure_count = 0, !.success_count = 0,
                !.consecutive_successes = 0]
       ELSE c1

record_failure(cb, t) ==
    LET c1 == [cb EXCEPT !.failure_count = @ + 1,
                         !.consecutive_failures = @ + 1,
                         !.consecutive_successes = 0,
                         !.last_failure_time = t]
        c2 == IF c1.consecutive_failures >= failure_threshold
              THEN transition_to(c1, "open", t) ELSE c1
    IN IF c2.state = "half_open" THEN transition_to(c2, "open", t) ELSE c2

\* can_proceed that leaves consecutive_successes as it is on the way to
\* half_open
can_proceed_keeps_streak(cb, t) ==
    CASE cb.state = "closed" -> [cb |-> cb, ok |-> TRUE]
      [] cb.state = "open" ->
            IF /\ cb.last_failure_time # NoTime
               /\ t - cb.last_failure_time >= reset_timeout_seconds
            THEN [cb |-> transition_to(cb, "half_open", t), ok |-> TRUE]
            ELSE [cb |-> cb, ok |-> FALSE]
      [] OTHER -> [cb |-> cb, ok |-> TRUE]

\* the breaker after the call, and what the call returns
can_proceed(cb, t) ==
    CASE cb.state = "closed" -> [cb |-> cb, ok |-> TRUE]
      [] cb.state = "open" ->
            IF /\ cb.last_failure_time # NoTime
               /\ t - cb.last_failure_time >= reset_timeout_seconds
            THEN [cb |-> [transition_to(cb, "half_open", t) EXCEPT
                             !.consecutive_successes = 0],
                  ok |-> TRUE]
            ELSE [cb |-> cb, ok |-> FALSE]
      [] OTHER -> [cb |-> cb, ok |-> TRUE]

get_flap_count(cb, t) ==
    LET cutoff == t - flap_window_minutes * 60
    IN Cardinality({i \in DOMAIN cb.state_changes :
                       cb.state_changes[i][1] > cutoff})

is_flapping(cb, t) == get_flap_count(cb, t) >= flap_threshold

BreakerInit ==
    /\ clock = 0
    /\ breaker = CircuitBreaker
    /\ breakerLog = [op |-> "init", ok |-> TRUE, streak |-> 0]

\* time passes
Advance(d) ==
    /\ clock < MaxClock
    /\ clock' = clock + d

\* record_success calls since cb1 became half_open, cb1 being what the call
\* that is logged made of cb0
Streak(cb0, cb1, op) ==
    CASE cb1.state # "half_open" -> 0
      [] cb0.state # "half_open" -> 0
      [] op = "record_success" -> breakerLog.streak + 1
      [] OTHER -> breakerLog.streak

Logged(op, ok, cb1) ==
    /\ breaker' = cb1
    /\ breakerLog' = [op |-> op, ok |-> ok, streak |-> Streak(breaker, cb1, op)]

RecordSuccess == Logged("record_success", TRUE, record_success(breaker, clock))

RecordFailure == Logged("record_failure", TRUE, record_failure(breaker, clock))

CanProceed ==
    LET r == can_proceed(breaker, clock)
    IN Logged("can_proceed", r.ok, r.cb)

BreakerStep ==
    \/ \E d \in Delays :
          /\ Advance(d)
          /\ breakerLog' = [breakerLog EXCEPT !.op = "advance"]
          /\ UNCHANGED breaker
    \/ breaker.success_count < MaxSuccesses /\ RecordSuccess /\ UNCHANGED clock
    \/ breaker.failure_count < MaxFailures /\ RecordFailure /\ UNCHANGED clock
    \/ CanProceed /\ UNCHANGED clock

\* ------------------------------------------------- EmergenceConfig
canary_initial_percentage == 1
canary_ramp_steps == 5
min_success_rate == 90
max_latency_ms == 5000
error_spike_threshold == 10
trend_window_size == 5
fast_ramp_threshold == 98
slow_ramp_threshold == 93
pause_threshold == 90

\* the configurations the model runs: the defaults with the two switches
\* either way, a small rollback ring and a small min_sample_size
EmergenceConfig ==
    [max_rollback_points : {MaxRollbackPoints},
     adaptive_ramp_enabled : BOOLEAN,
     track_outcomes : BOOLEAN,
     min_sample_size : {MinSampleSize}]

\* ------------------------------------------------- emergence: state
VARIABLES
    emConfig,                \* EmergenceEngine.config
    variants,                \* EmergenceEngine.variants; the id of a variant
                             \* is its place in the order of creation
    circuit_breakers,        \* EmergenceEngine.circuit_breakers
    rollback_points,         \* EmergenceEngine.rollback_points
    current_active_variant,  \* EmergenceEngine.current_active_variant,
                             \* 0 for None
    outcomes,                \* EmergenceEngine.outcomes
    experiments,             \* EmergenceEngine.experiments
    emLog,                   \* the last step: the call that returned, with
                             \* its arguments and what it returned
    statusPath,              \* per variant: the values its status has had
                             \* (history only)
    workload                 \* what the callers of the run report: "varied"
                             \* metrics at one instant, or a "long" series
                             \* of good and bad ones while time passes

engVars ==
    <<emConfig, variants, circuit_breakers, rollback_points,
      current_active_variant, outcomes, experiments, emLog, statusPath>>

emVars == <<cbVars, engVars, workload>>

\* id is the id of the variant or experiment the call was made on
EmOp(op, id, arg, ret) == [op |-> op, id |-> id, arg |-> arg, ret |-> ret]

\* EmergenceEngine(config)
EmergenceInit ==
    /\ emConfig \in EmergenceConfig
    /\ variants = << >>
    /\ circuit_breakers = << >>
    /\ rollback_points = << >>
    /\ current_active_variant = 0
    /\ outcomes = << >>
    /\ experiments = << >>
    /\ emLog = EmOp("init", 0, None, None)
    /\ statusPath = << >>
    /\ workload \in {"varied", "long"}

\* ProtocolVariant(variant_id, description, changes)
ProtocolVariant ==
    [status |-> "proposed", metrics_history |-> << >>,
     canary_percentage |-> 0, rollback_count |-> 0, pause_count |-> 0,
     rollback_reason |-> None]

HasVariant(vid) == vid \in DOMAIN variants

RECURSIVE SumOf(_, _)
SumOf(s, f) == IF s = << >> THEN 0 ELSE s[1][f] + SumOf(Tail(s), f)

\* s[-window:]
LastN(s, window) ==
    IF Len(s) <= window THEN s ELSE SubSeq(s, Len(s) - window + 1, Len(s))

\* ProtocolVariant.get_average_success_rate, as the fraction sum / n
get_average_success_rate(v, window) ==
    IF v.metrics_history = << >>
    THEN [sum |-> 100, n |-> 1]
    ELSE LET recent == LastN(v.metrics_history, window)
         IN [sum |-> SumOf(recent, "success_rate"), n |-> Len(recent)]

\* avg >= pct, for a fraction avg and a whole number pct
AtLeast(avg, pct) == avg.sum >= pct * avg.n

\* ------------------------------------------------- emergence: operations
\* a call that raises ValueError
EmRaise == UNCHANGED engVars

\* a status change of variant vid is written to its path
Path(vid, v) ==
    IF statusPath[vid][Len(statusPath[vid])] = v.status
    THEN statusPath
    ELSE [statusPath EXCEPT ![vid] = Append(@, v.status)]

\* the call returns, having made variant vid into v
EmReturn(op, vid, arg, ret, v) ==
    /\ variants' = [variants EXCEPT ![vid] = v]
    /\ statusPath' = Path(vid, v)
    /\ emLog' = EmOp(op, vid, arg, ret)
    /\ UNCHANGED <<emConfig, experiments>>

propose_variant ==
    /\ variants' = Append(variants, ProtocolVariant)
    /\ circuit_breakers' = Append(circuit_breakers, CircuitBreaker)
    /\ statusPath' = Append(statusPath, <<"proposed">>)
    /\ emLog' = EmOp("propose_variant", Len(variants) + 1, None, None)
    /\ UNCHANGED <<emConfig, rollback_points, current_active_variant,
                   outcomes, experiments>>

start_testing(vid) ==
    IF ~HasVariant(vid) \/ variants[vid].status # "proposed"
    THEN EmRaise
    ELSE /\ EmReturn("start_testing", vid, None, None,
                     [variants[vid] EXCEPT !.status = "testing"])
         /\ UNCHANGED <<circuit_breakers, rollback_points,
                        current_active_variant, outcomes>>

\* deque(maxlen = max_rollback_points).append
create_rollback_point(vid) ==
    LET ring == Append(rollback_points, vid)
    IN IF Len(ring) > emConfig.max_rollback_points THEN Tail(ring) ELSE ring

\* start_canary without the test of the status
start_canary_from_any_status(vid, initial_percentage) ==
    IF ~HasVariant(vid)
    THEN EmRaise
    ELSE /\ rollback_points' = create_rollback_point(vid)
         /\ EmReturn("start_canary", vid, initial_percentage, None,
                     [variants[vid] EXCEPT
                         !.status = "canary",
                         !.canary_percentage =
                             IF initial_percentage # 0
                             THEN initial_percentage
                             ELSE canary_initial_percentage])
         /\ UNCHANGED <<circuit_breakers, current_active_variant, outcomes>>

\* initial_percentage = 0 stands for None as well: both are falsy
start_canary(vid, initial_percentage) ==
    IF ~HasVariant(vid) \/ variants[vid].status # "testing"
    THEN EmRaise
    ELSE /\ rollback_points' = create_rollback_point(vid)
         /\ EmReturn("start_canary", vid, initial_percentage, None,
                     [variants[vid] EXCEPT
                         !.status = "canary",
                         !.canary_percentage =
                             IF initial_percentage # 0
                             THEN initial_percentage
                             ELSE canary_initial_percentage])
         /\ UNCHANGED <<circuit_breakers, current_active_variant, outcomes>>

calculate_adaptive_ramp(v) ==
    IF Len(v.metrics_history) < 3
    THEN "normal"
    ELSE LET avg_success == get_average_success_rate(v, 5)
         IN CASE AtLeast(avg_success, fast_ramp_threshold) -> "fast"
              [] AtLeast(avg_success, slow_ramp_threshold) -> "normal"
              [] AtLeast(avg_success, pause_threshold) -> "slow"
              [] OTHER -> "pause"

\* step_size that is a whole step when the decision is "slow"
StepSize_whole_step_when_slow(decision) ==
    CASE decision = "fast" -> 20 \div canary_ramp_steps
      [] OTHER -> 10 \div canary_ramp_steps

\* step_size in tenths: 0.5, 1.0 or 2.0 divided by canary_ramp_steps
StepSize(decision) ==
    CASE decision = "slow" -> 5 \div canary_ramp_steps
      [] decision = "fast" -> 20 \div canary_ramp_steps
      [] OTHER -> 10 \div canary_ramp_steps

Min(a, b) == IF a <= b THEN a ELSE b

ramp_canary(vid, force) ==
    IF ~HasVariant(vid) \/ variants[vid].status # "canary"
    THEN EmRaise
    ELSE LET variant == variants[vid]
             ramp_decision ==
                IF emConfig.adaptive_ramp_enabled /\ ~force
                THEN calculate_adaptive_ramp(variant)
                ELSE "normal"
             pct == Min(10, variant.canary_percentage + StepSize(ramp_decision))
         IN IF ramp_decision = "pause"
            THEN /\ EmReturn("ramp_canary", vid, force, ramp_decision,
                             [variant EXCEPT !.status = "paused",
                                             !.pause_count = @ + 1])
                 /\ UNCHANGED <<circuit_breakers, rollback_points,
                                current_active_variant, outcomes>>
            ELSE /\ EmReturn("ramp_canary", vid, force, ramp_decision,
                             [variant EXCEPT
                                 !.canary_percentage = pct,
                                 !.status = IF pct >= 10 THEN "active" ELSE @])
                 /\ current_active_variant' =
                       IF pct >= 10 THEN vid ELSE current_active_variant
                 /\ UNCHANGED <<circuit_breakers, rollback_points, outcomes>>

resume_variant(vid) ==
    IF ~HasVariant(vid) \/ variants[vid].status # "paused"
    THEN EmRaise
    ELSE /\ EmReturn("resume_variant", vid, None, None,
                     [variants[vid] EXCEPT !.status = "canary"])
         /\ UNCHANGED <<circuit_breakers, rollback_points,
                        current_active_variant, outcomes>>

\* PerformanceMetrics(success_rate, latency_ms, error_count)
PerformanceMetrics(success_rate, latency_ms, error_count) ==
    [success_rate |-> success_rate, latency_ms |-> latency_ms,
     error_count |-> error_count]

RECURSIVE SumSeq(_)
SumSeq(s) == IF s = << >> THEN 0 ELSE s[1] + SumSeq(Tail(s))

\* EmergenceEngine.analyze_trend(variant_id, "success_rate").  With n values
\* v[1..n] of sum S, the code's numerator is Num / 2n and its denominator
\* Den / 4 for Num = sum of (2i - (n+1)) * (n v[i] - S) and Den = sum of
\* (2i - (n+1))^2, so the normalised slope slope / y_mean is
\* 2 Num / (Den S), and statistics.variance is Dev / (n^2 (n-1)) for Dev =
\* sum of (n v[i] - S)^2.
analyze_trend(v) ==
    LET window == trend_window_size
    IN IF Len(v.metrics_history) < window \/ window < 2
       THEN "insufficient_data"
       ELSE LET recent == LastN(v.metrics_history, window)
                n == Len(recent)
                S == SumOf(recent, "success_rate")
                W(i) == 2 * i - (n + 1)
                D(i) == n * recent[i].success_rate - S
                Num == SumSeq([i \in 1..n |-> W(i) * D(i)])
                Den == SumSeq([i \in 1..n |-> W(i) * W(i)])
                Dev == SumSeq([i \in 1..n |-> D(i) * D(i)])
            IN CASE S = 0 -> "stable"
                 [] 100 * Dev > 9 * (n - 1) * S * S -> "volatile"
                 [] 40 * Num > Den * S -> "improving"
                 [] 40 * Num < 0 - Den * S -> "degrading"
                 [] OTHER -> "stable"

\* _should_auto_rollback that looks at the recent metrics only once there
\* are more than three of them
should_auto_rollback_after_four(v, circuit, t) ==
    LET recent == LastN(v.metrics_history, 3)
    IN CASE circuit.state = "open" -> "circuit_open"
         [] is_flapping(circuit, t) -> "anomaly_detected"
         [] /\ Len(v.metrics_history) > 3
            /\ SumOf(recent, "success_rate") < min_success_rate * Len(recent)
              -> "success_rate_low"
         [] /\ Len(v.metrics_history) > 3
            /\ SumOf(recent, "latency_ms") > max_latency_ms * Len(recent)
              -> "latency_high"
         [] /\ Len(v.metrics_history) > 3
            /\ SumOf(recent, "error_count") > error_spike_threshold * 3
              -> "error_spike"
         [] /\ analyze_trend(v) = "degrading"
            /\ Len(v.metrics_history) >= trend_window_size
              -> "trend_degrading"
         [] OTHER -> None

\* EmergenceEngine._should_auto_rollback: the reason, or None
should_auto_rollback(v, circuit, t) ==
    LET recent == LastN(v.metrics_history, 3)
    IN CASE circuit.state = "open" -> "circuit_open"
         [] is_flapping(circuit, t) -> "anomaly_detected"
         [] /\ Len(v.metrics_history) >= 3
            /\ SumOf(recent, "success_rate") < min_success_rate * Len(recent)
              -> "success_rate_low"
         [] /\ Len(v.metrics_history) >= 3
            /\ SumOf(recent, "latency_ms") > max_latency_ms * Len(recent)
              -> "latency_high"
         [] /\ Len(v.metrics_history) >= 3
            /\ SumOf(recent, "error_count") > error_spike_threshold * 3
              -> "error_spike"
         [] /\ analyze_trend(v) = "degrading"
            /\ Len(v.metrics_history) >= trend_window_size
              -> "trend_degrading"
         [] OTHER -> None

\* VariantOutcome as _record_outcome builds it from the variant
VariantOutcome(vid, v) ==
    [variant_id |-> vid, final_status |-> v.status,
     rollback_count |-> v.rollback_count]

\* the newest rollback point of variant vid, 0 if the ring holds none
PointOf(vid) ==
    LET found == {i \in DOMAIN rollback_points : rollback_points[i] = vid}
    IN IF found = {} THEN 0 ELSE CHOOSE i \in found : \A j \in found : j <= i

\* rollback that leaves rollback_count as it is when the ring holds no
\* point of the variant
Rollback_counts_only_with_point(v, vid, reason) ==
    LET counted == [v EXCEPT !.rollback_count =
                                IF PointOf(vid) # 0 THEN @ + 1 ELSE @]
    IN [variant |-> [counted EXCEPT !.status = "rolled_back",
                                    !.rollback_reason = reason],
        outcomes |-> IF emConfig.track_outcomes
                     THEN Append(outcomes, VariantOutcome(vid, counted))
                     ELSE outcomes]

\* EmergenceEngine.rollback on variant v of id vid: the variant and the
\* outcomes list after the call
Rollback(v, vid, reason) ==
    LET counted == [v EXCEPT !.rollback_count = @ + 1]
    IN [variant |-> [counted EXCEPT !.status = "rolled_back",
                                    !.rollback_reason = reason],
        outcomes |-> IF emConfig.track_outcomes
                     THEN Append(outcomes, VariantOutcome(vid, counted))
                     ELSE outcomes]

rollback(vid, reason) ==
    IF ~HasVariant(vid)
    THEN EmRaise
    ELSE LET r == Rollback(variants[vid], vid, reason)
         IN /\ EmReturn("rollback", vid, reason, PointOf(vid), r.variant)
            /\ outcomes' = r.outcomes
            /\ UNCHANGED <<circuit_breakers, rollback_points,
                           current_active_variant>>

\* the breaker call that track_performance makes for the metrics
IsFailure(metrics) ==
    \/ metrics.success_rate < min_success_rate
    \/ metrics.latency_ms > max_latency_ms
    \/ metrics.error_count > error_spike_threshold

track_performance(vid, metrics) ==
    IF ~HasVariant(vid)
    THEN EmRaise
    ELSE LET tracked == [variants[vid] EXCEPT
                            !.metrics_history = Append(@, metrics)]
             circuit == IF IsFailure(metrics)
                        THEN record_failure(circuit_breakers[vid], clock)
                        ELSE record_success(circuit_breakers[vid], clock)
             reason == should_auto_rollback(tracked, circuit, clock)
             r == IF reason # None
                  THEN Rollback(tracked, vid, reason)
                  ELSE [variant |-> tracked, outcomes |-> outcomes]
         IN /\ EmReturn("track_performance", vid, metrics, reason, r.variant)
            /\ circuit_breakers' = [circuit_breakers EXCEPT ![vid] = circuit]
            /\ outcomes' = r.outcomes
            /\ UNCHANGED <<rollback_points, current_active_variant>>

\* get_variant_status changes nothing but the breaker, through can_proceed
get_variant_status(vid) ==
    IF ~HasVariant(vid)
    THEN EmRaise
    ELSE LET r == can_proceed(circuit_breakers[vid], clock)
         IN /\ circuit_breakers' = [circuit_breakers EXCEPT ![vid] = r.cb]
            /\ emLog' = EmOp("get_variant_status", vid, None, r.ok)
            /\ UNCHANGED <<emConfig, variants, rollback_points,
                           current_active_variant, outcomes, experiments,
                           statusPath>>

\* ------------------------------------------------- A/B experiments
\* ABTestExperiment(experiment_id, control_variant_id, treatment_variant_id);
\* ended_at = NoTime and winner = 0 stand for None, control_metrics and
\* treatment_metrics hold the success rates, confidence is in tenths
ABTestExperiment(control_variant_id, treatment_variant_id) ==
    [control_variant_id |-> control_variant_id,
     treatment_variant_id |-> treatment_variant_id,
     ended_at |-> NoTime, control_metrics |-> << >>,
     treatment_metrics |-> << >>, winner |-> 0, confidence |-> 0,
     status |-> "running"]

HasExperiment(eid) == eid \in DOMAIN experiments

start_experiment(control_variant_id, treatment_variant_id) ==
    IF ~HasVariant(control_variant_id) \/ ~HasVariant(treatment_variant_id)
    THEN EmRaise
    ELSE /\ experiments' =
               Append(experiments,
                      ABTestExperiment(control_variant_id, treatment_variant_id))
         /\ emLog' = EmOp("start_experiment", Len(experiments) + 1, None, None)
         /\ UNCHANGED <<emConfig, variants, circuit_breakers, rollback_points,
                        current_active_variant, outcomes, statusPath>>

RECURSIVE SumSquares(_)
SumSquares(s) == IF s = << >> THEN 0 ELSE s[1] * s[1] + SumSquares(Tail(s))

\* len(rates) * statistics.variance(rates) as the fraction num / den, and
\* 0 for a single rate as the code has it
ScaledVariance(rates) ==
    LET n == Len(rates)
    IN IF n > 1
       THEN [num |-> n * SumSquares(rates) - SumSeq(rates) * SumSeq(rates),
             den |-> n - 1]
       ELSE [num |-> 0, den |-> 1]

\* z_score ** 2 as the fraction num / den, den = 0 when se == 0.  With n
\* control rates of sum C and scaled variance c, and m treatment rates of
\* sum T and scaled variance t, the difference of the means is
\* (T n - C m) / (n m) and se ** 2 is c / n^2 + t / m^2.
ZSquared(control_rates, treatment_rates) ==
    LET n == Len(control_rates)
        m == Len(treatment_rates)
        diff == SumSeq(treatment_rates) * n - SumSeq(control_rates) * m
        c == ScaledVariance(control_rates)
        t == ScaledVariance(treatment_rates)
    IN [num |-> diff * diff * c.den * t.den,
        den |-> m * m * c.num * t.den + n * n * t.num * c.den]

\* min(0.99, 1 - 1 / (1 + z)) in whole tenths
Confidence(z2) ==
    CHOOSE k \in 0..9 :
        /\ z2.num * (10 - k) * (10 - k) >= k * k * z2.den
        /\ \A j \in (k + 1)..9 :
              z2.num * (10 - j) * (10 - j) < j * j * z2.den

\* _check_experiment_significance at ab_significance_level 0.95:
\* z_score >= 1.96, that is z_score ** 2 >= 2401 / 625
check_experiment_significance(e, t) ==
    LET control == e.control_metrics
        treatment == e.treatment_metrics
        z2 == ZSquared(control, treatment)
    IN IF \/ Len(control) < emConfig.min_sample_size
          \/ Len(treatment) < emConfig.min_sample_size
       THEN e
       ELSE IF z2.den = 0
       THEN e
       ELSE IF 625 * z2.num >= 2401 * z2.den
       THEN [e EXCEPT
                !.status = "completed",
                !.ended_at = t,
                !.confidence = Confidence(z2),
                !.winner =
                    IF SumSeq(treatment) * Len(control)
                          > SumSeq(control) * Len(treatment)
                    THEN e.treatment_variant_id
                    ELSE e.control_variant_id]
       ELSE e

\* the experiment with the metrics appended to the side of variant vid
Recorded(e, vid, rate) ==
    IF vid = e.control_variant_id
    THEN [e EXCEPT !.control_metrics = Append(@, rate)]
    ELSE [e EXCEPT !.treatment_metrics = Append(@, rate)]

ExperimentReturn(op, eid, arg, e) ==
    /\ experiments' = [experiments EXCEPT ![eid] = e]
    /\ emLog' = EmOp(op, eid, arg, None)
    /\ UNCHANGED <<emConfig, variants, circuit_breakers, rollback_points,
                   current_active_variant, outcomes, statusPath>>

record_experiment_metrics(eid, vid, rate) ==
    IF \/ ~HasExperiment(eid)
       \/ vid \notin {experiments[eid].control_variant_id,
                      experiments[eid].treatment_variant_id}
    THEN EmRaise
    ELSE ExperimentReturn(
             "record_experiment_metrics", eid, vid,
             check_experiment_significance(
                 Recorded(experiments[eid], vid, rate), clock))

\* winner = 0 stands for None
end_experiment(eid, winner) ==
    IF ~HasExperiment(eid)
    THEN EmRaise
    ELSE ExperimentReturn(
             "end_experiment", eid, winner,
             [experiments[eid] EXCEPT
                 !.status = IF winner # 0 THEN "completed" ELSE "inconclusive",
                 !.ended_at = clock,
                 !.winner = IF winner # 0 THEN winner ELSE @])

\* ------------------------------------------------- alignment scorer
\* (src/mcp_server/xenocomm_mcp/alignment.py, class AlignmentEngine)
\* A confidence is the fraction num / den; similarities, weights and status
\* scores are in hundredths.

\* the agent ids of the registry
AgentIds == {"a1", "a2"}

\* the knowledge domains, terms, definitions, assumptions, context
\* parameters and capabilities the agents of the model declare
KnowledgeDomains == {"python", "biology"}

GoalLists == {<< >>, <<"research">>}

Terminologies == {<< >>, [x |-> "u"], [x |-> "v"]}

Assumptions == {"utf8 text", "metric units"}

ContextParams == {<< >>, [k |-> 1], [k |-> 2]}

Capabilities == {"msgpack", "high_throughput", "streaming"}

\* AgentContext
AgentContext(agent_id, knowledge_domains, goals, terminology, assumptions, context_params, capabilities) ==
    [agent_id |-> agent_id, knowledge_domains |-> knowledge_domains,
     goals |-> goals, terminology |-> terminology,
     assumptions |-> assumptions, context_params |-> context_params,
     capabilities |-> capabilities]

\* AlignmentResult(status, confidence)
AlignmentResult(status, num, den) ==
    [status |-> status, confidence |-> [num |-> num, den |-> den]]

\* AlignmentEngine._domain_index for the domains of the model
domain_index == [d \in KnowledgeDomains |->
                    IF d = "python" THEN "data_science" ELSE "science"]

\* AlignmentEngine._domain_similarity; two domains of different parents
\* that share no word have the text similarity 0
domain_similarity(domain_a, domain_b) ==
    IF domain_a = domain_b THEN 100
    ELSE IF domain_index[domain_a] = domain_b
            \/ domain_index[domain_b] = domain_a THEN 80
    ELSE IF domain_index[domain_a] = domain_index[domain_b] THEN 60
    ELSE 0

RECURSIVE SumSimilarity(_)
SumSimilarity(pairs) ==
    IF pairs = {} THEN 0
    ELSE LET p == CHOOSE q \in pairs : TRUE
         IN domain_similarity(p[1], p[2]) + SumSimilarity(pairs \ {p})

\* AlignmentEngine.verify_knowledge; required_domains = {} stands for None
verify_knowledge(agent_a, agent_b, required_domains) ==
    LET domains_a == agent_a.knowledge_domains
        domains_b == agent_b.knowledge_domains
        shared == domains_a \cap domains_b
        related_pairs ==
            {p \in (domains_a \ shared) \X (domains_b \ shared) :
                domain_similarity(p[1], p[2]) >= 50}
        all_domains == domains_a \cup domains_b
        den == 200 * Cardinality(all_domains)
        raw == 200 * Cardinality(shared) + SumSimilarity(related_pairs)
        overlap_ratio ==
            IF all_domains = {} THEN [num |-> 0, den |-> 1]
            ELSE [num |-> IF raw < den THEN raw ELSE den, den |-> den]
        Has(domains, d) ==
            d \in domains \/ \E x \in domains : domain_similarity(d, x) >= 60
        missing_a == {d \in required_domains : ~Has(domains_a, d)}
        missing_b == {d \in required_domains : ~Has(domains_b, d)}
        status ==
            IF required_domains # {} /\ missing_a # {} /\ missing_b # {}
            THEN "misaligned"
            ELSE IF required_domains # {} /\ (missing_a # {} \/ missing_b # {})
            THEN "partial"
            ELSE IF 2 * overlap_ratio.num > overlap_ratio.den THEN "aligned"
            ELSE IF 5 * overlap_ratio.num > overlap_ratio.den THEN "partial"
            ELSE "misaligned"
    IN AlignmentResult(status, overlap_ratio.num, overlap_ratio.den)

\* goal_compatibility_matrix.get("<a>:<b>", ....get("<b>:<a>", 0.5)): the
\* matrix is keyed by goal type, so no "<a>:<b>" key is ever found
goal_compatibility(goal_type_a, goal_type_b) == 50

\* AlignmentEngine.verify_goals; goals are given by their types
verify_goals(agent_a, agent_b) ==
    IF agent_a.goals = << >> \/ agent_b.goals = << >>
    THEN AlignmentResult("unknown", 0, 1)
    ELSE LET pairs == (1..Len(agent_a.goals)) \X (1..Len(agent_b.goals))
             Compat(p) ==
                 goal_compatibility(agent_a.goals[p[1]], agent_b.goals[p[2]])
             conflicts == {p \in pairs : Compat(p) < 30}
             alignments == {p \in pairs : Compat(p) > 70}
             total_pairs == Cardinality(pairs)
             status ==
                 IF 10 * Cardinality(conflicts) > 3 * total_pairs
                 THEN "misaligned"
                 ELSE IF 2 * Cardinality(alignments) > total_pairs
                 THEN "aligned"
                 ELSE "partial"
         IN AlignmentResult(status, Cardinality(alignments), total_pairs)

\* AlignmentEngine.align_terminology; the definitions of the model are in
\* lower case
align_terminology(agent_a, agent_b) ==
    LET shared_terms == DOMAIN agent_a.terminology
                            \cap DOMAIN agent_b.terminology
        conflicts == {t \in shared_terms :
                         agent_a.terminology[t] # agent_b.terminology[t]}
        c == Cardinality(conflicts)
        s == Cardinality(shared_terms)
        status == IF 10 * c > 3 * s THEN "misaligned"
                  ELSE IF 10 * c > s THEN "partial"
                  ELSE "aligned"
    IN IF shared_terms = {}
       THEN AlignmentResult(status, 1, 1)
       ELSE AlignmentResult(status, s - c, s)

\* AlignmentEngine._assumptions_conflict: the assumptions of the model hold
\* no negation and no antonyms
assumptions_conflict(assumption_a, assumption_b) == FALSE

\* AlignmentEngine.verify_assumptions
verify_assumptions(agent_a, agent_b) ==
    LET shared == agent_a.assumptions \cap agent_b.assumptions
        unique_a == agent_a.assumptions \ agent_b.assumptions
        unique_b == agent_b.assumptions \ agent_a.assumptions
        all_assumptions == agent_a.assumptions \cup agent_b.assumptions
        alignment_ratio ==
            IF all_assumptions = {} THEN [num |-> 1, den |-> 1]
            ELSE [num |-> Cardinality(shared),
                  den |-> Cardinality(all_assumptions)]
        conflicts == {p \in unique_a \X unique_b :
                         assumptions_conflict(p[1], p[2])}
        status ==
            IF conflicts # {} THEN "misaligned"
            ELSE IF 10 * alignment_ratio.num > 7 * alignment_ratio.den
            THEN "aligned"
            ELSE IF 10 * alignment_ratio.num > 3 * alignment_ratio.den
            THEN "partial"
            ELSE "misaligned"
    IN AlignmentResult(status, alignment_ratio.num, alignment_ratio.den)

\* AlignmentEngine.sync_context; required_params = {} stands for None
sync_context(agent_a, agent_b, required_params) ==
    LET params_a == agent_a.context_params
        params_b == agent_b.context_params
        all_params == DOMAIN params_a \cup DOMAIN params_b
        both == DOMAIN params_a \cap DOMAIN params_b
        mismatches == {p \in both : params_a[p] # params_b[p]}
        matches == {p \in both : params_a[p] = params_b[p]}
        required_missing ==
            {p \in required_params :
                p \notin DOMAIN params_a \/ p \notin DOMAIN params_b}
        sync_ratio ==
            IF all_params = {} THEN [num |-> 1, den |-> 1]
            ELSE [num |-> Cardinality(matches),
                  den |-> Cardinality(all_params)]
        status ==
            IF required_missing # {} THEN "misaligned"
            ELSE IF mismatches # {} THEN "partial"
            ELSE IF 10 * sync_ratio.num > 8 * sync_ratio.den THEN "aligned"
            ELSE "partial"
    IN AlignmentResult(status, sync_ratio.num, sync_ratio.den)

\* the five strategies, in the order of full_alignment_check
Strategies == {"knowledge", "goals", "terminology", "assumptions", "context"}

\* StrategyWeight(): the default weights
StrategyWeight ==
    [knowledge |-> 25, goals |-> 25, terminology |-> 20,
     assumptions |-> 15, context |-> 15]

\* the status_score table of _calculate_weighted_alignment
StatusScore(status) ==
    CASE status = "aligned" -> 100
      [] status = "partial" -> 50
      [] status = "unknown" -> 25
      [] OTHER -> 0

RECURSIVE SumWeighted(_, _, _)
\* sum over the strategies of S of
\* weight * (0.6 * status_score + 0.4 * confidence), times 1000 * D
SumWeighted(results, S, D) ==
    IF S = {} THEN 0
    ELSE LET n == CHOOSE x \in S : TRUE
             r == results[n]
         IN StrategyWeight[n]
                * (6 * StatusScore(r.status) * r.confidence.den
                   + 400 * r.confidence.num)
                * (D \div r.confidence.den)
            + SumWeighted(results, S \ {n}, D)

RECURSIVE ProductOfDens(_, _)
ProductOfDens(results, S) ==
    IF S = {} THEN 1
    ELSE LET n == CHOOSE x \in S : TRUE
         IN results[n].confidence.den * ProductOfDens(results, S \ {n})

RECURSIVE SumWeights(_)
SumWeights(S) ==
    IF S = {} THEN 0
    ELSE LET n == CHOOSE x \in S : TRUE
         IN StrategyWeight[n] + SumWeights(S \ {n})

\* AlignmentEngine._calculate_weighted_alignment: the final score as the
\* fraction num / den and the overall status
calculate_weighted_alignment(results) ==
    LET D == ProductOfDens(results, Strategies)
        num == SumWeighted(results, Strategies, D)
        den == 1000 * D * SumWeights(Strategies)
        status == IF 4 * num >= 3 * den THEN "aligned"
                  ELSE IF 20 * num >= 9 * den THEN "partial"
                  ELSE "misaligned"
    IN AlignmentResult(status, num, den)

\* AlignmentEngine.full_alignment_check: the five results and "_summary"
full_alignment_check(agent_a, agent_b, required_domains) ==
    LET results ==
            [knowledge |-> verify_knowledge(agent_a, agent_b, required_domains),
             goals |-> verify_goals(agent_a, agent_b),
             terminology |-> align_terminology(agent_a, agent_b),
             assumptions |-> verify_assumptions(agent_a, agent_b),
             context |-> sync_context(agent_a, agent_b, {})]
    IN [n \in Strategies \cup {"_summary"} |->
           IF n = "_summary" THEN calculate_weighted_alignment(results)
           ELSE results[n]]

\* ------------------------------------------------- orchestrator: state
VARIABLES
    orchConfig,       \* XenoCommOrchestrator.config
    agent_registry,   \* XenoCommOrchestrator.agent_registry
    collaborations,   \* XenoCommOrchestrator.sessions; the id of a session
                      \* is its place in the order of creation
    hooks,            \* XenoCommOrchestrator._hooks: per event the callbacks
    orchLog           \* the last call of the orchestrator and what the
                      \* observers among the callbacks saw during it

orchVars == <<orchConfig, agent_registry, collaborations, hooks, orchLog>>

\* the state of the parts around the engines
\* the position of each caller of check_all_timeouts
VARIABLES threads

\* the workflows
VARIABLES
    executions,    \* the executions of the four workflows, in order of
                   \* creation
    wfLog          \* the last call of a workflow that returned

wfVars == <<executions, wfLog>>

\* the server
VARIABLES
    toolLog,       \* the last call of a negotiation tool and how it ended
    event_bus,     \* ObservationManager.event_bus
    published,     \* every event handed to EventBus.publish, in the order
                   \* in which the calls took the lock (history only)
    busLog         \* the last call of the event bus and what it returned

\* the threads that call the event bus
VARIABLES
    busLock,       \* EventBus._lock: its owner and how often the owner
                   \* has taken it
    busThreads     \* per thread: its place in the call it makes

lockVars == <<busLock, busThreads>>

\* the observation manager
VARIABLES
    persistence,   \* EnhancedObservationManager.persistence
    handed,        \* every event given to write_event, in order (history
                   \* only)
    alerting,      \* EnhancedObservationManager.alerting: its alerts and
                   \* the number of alert ids it has made
    snapshots,     \* ObservationManager._snapshots
    mgrLog         \* the last call of the manager

sinkVars == <<persistence, handed, alerting, snapshots, mgrLog>>

\* the rate limiter of the Python bindings
VARIABLES
    limiter,       \* a RateLimiter
    limThreads,    \* per thread: its place in acquire
    limNow,        \* time.time(), in ticks
    limLog         \* what the calls of acquire have returned so far

limVars == <<limiter, limThreads, limNow, limLog>>

\* the cache manager of the Python bindings
VARIABLES
    cache_manager, \* a CacheManager
    cacheNow,      \* time.time(), in ticks
    cacheLog       \* the last call of the cache manager

cacheVars == <<cache_manager, cacheNow, cacheLog>>

extraVars == <<lockVars, sinkVars, limVars, cacheVars>>

srvVars == <<toolLog, event_bus, published, busLog, extraVars>>

restVars == <<orchVars, threads, wfVars, srvVars>>

vars == <<negVars, emVars, restVars>>

\* ------------------------------------------------- orchestrator
\* (src/mcp_server/xenocomm_mcp/orchestrator.py, class XenoCommOrchestrator)
\* OrchestratorConfig defaults; the two scores are in hundredths
min_alignment_confidence == 60
required_aligned_strategies == 3
auto_accept_threshold == 90

\* the configurations the model runs: the defaults with the gate on or off
OrchestratorConfig == [require_alignment_for_negotiation : BOOLEAN]

\* the events of XenoCommOrchestrator._hooks
HookEvents ==
    {"on_alignment_complete", "on_negotiation_complete", "on_session_ready",
     "on_evolution_triggered"}

\* the callbacks of the model: an observer looks the session it is handed up
\* with get_session and notes its state, a raiser raises an Exception
HookKinds == {"observer", "raiser"}

\* XenoCommOrchestrator(config)
OrchestratorInit ==
    /\ orchConfig \in OrchestratorConfig
    /\ agent_registry = << >>
    /\ collaborations = << >>
    /\ hooks = [e \in HookEvents |-> << >>]
    /\ orchLog = [op |-> "init", id |-> 0, raised |-> FALSE, seen |-> << >>]

\* a call that raises ValueError before it changes anything
OrchRaise == UNCHANGED orchVars

\* the record of a call: the collaboration session it was made on or
\* created, whether it raised, and what the observers saw during it
OrchOp(op, id, raised, seen) ==
    [op |-> op, id |-> id, raised |-> raised, seen |-> seen]

\* XenoCommOrchestrator.register_agent (AlignmentEngine.register_agent keeps
\* a second copy of the context that no modelled operation reads)
register_agent(context) ==
    /\ agent_registry' =
           [a \in DOMAIN agent_registry \cup {context.agent_id} |->
               IF a = context.agent_id THEN context ELSE agent_registry[a]]
    /\ orchLog' = OrchOp("register_agent", 0, FALSE, << >>)
    /\ UNCHANGED <<orchConfig, collaborations, hooks>>

\* XenoCommOrchestrator.add_hook
add_hook(event, callback) ==
    /\ IF event \in DOMAIN hooks
       THEN hooks' = [hooks EXCEPT ![event] = Append(@, callback)]
       ELSE UNCHANGED hooks
    /\ orchLog' = OrchOp("add_hook", 0, FALSE, << >>)
    /\ UNCHANGED <<orchConfig, agent_registry, collaborations>>

\* what one callback does when it is handed session: an observer notes
\* whether XenoCommOrchestrator.get_session, self.sessions.get(session_id),
\* finds it, and the state it is in
Observation(event, sessions_map, session_id, session) ==
    [event |-> event,
     found |-> session_id \in DOMAIN sessions_map,
     state |-> session.state]

RECURSIVE RunHooks(_, _, _, _, _)
\* the loop of _trigger_hooks over callbacks: every callback is called, an
\* Exception of a callback is passed over
RunHooks(callbacks, event, sessions_map, session_id, session) ==
    IF callbacks = << >> THEN << >>
    ELSE (IF Head(callbacks) = "observer"
          THEN <<Observation(event, sessions_map, session_id, session)>>
          ELSE << >>)
         \o RunHooks(Tail(callbacks), event, sessions_map, session_id, session)

RECURSIVE RunHooksUntilRaise(_, _, _, _, _)
RunHooksUntilRaise(callbacks, event, sessions_map, session_id, session) ==
    IF callbacks = << >> \/ Head(callbacks) = "raiser" THEN << >>
    ELSE <<Observation(event, sessions_map, session_id, session)>>
         \o RunHooksUntilRaise(Tail(callbacks), event, sessions_map,
                               session_id, session)

\* a loop without the try: the first Exception ends it and the call
trigger_hooks_unguarded(event, sessions_map, session_id, session) ==
    [seen |-> RunHooksUntilRaise(hooks[event], event, sessions_map,
                                 session_id, session),
     raised |-> \E i \in 1..Len(hooks[event]) : hooks[event][i] = "raiser"]

\* XenoCommOrchestrator._trigger_hooks: what the observers saw, and whether
\* an Exception left the loop
trigger_hooks(event, sessions_map, session_id, session) ==
    [seen |-> RunHooks(hooks[event], event, sessions_map, session_id,
                       session),
     raised |-> FALSE]

\* CollaborationSession(session_id, agent_a_id, agent_b_id, state=ALIGNING)
\* ended is history only: whether the session was completed or failed
\* first, None while it was neither
CollaborationSession(agent_a_id, agent_b_id) ==
    [agent_a_id |-> agent_a_id, agent_b_id |-> agent_b_id,
     state |-> "aligning", alignment_results |-> << >>,
     alignment_score |-> [num |-> 0, den |-> 1],
     negotiation_session |-> 0, failure_reason |-> None,
     pending_variants |-> << >>, active_variant_id |-> 0, ended |-> None]

\* the number of results of the full check, "_summary" among them, that
\* have the status
CountStatus(alignment_results, status) ==
    Cardinality({n \in DOMAIN alignment_results :
                    alignment_results[n].status = status})

\* session.metrics.alignment_score =
\*     (aligned_count + 0.5 * partial_count) / len(alignment_results)
AlignmentScore(alignment_results) ==
    [num |-> 2 * CountStatus(alignment_results, "aligned")
                 + CountStatus(alignment_results, "partial"),
     den |-> 2 * Cardinality(DOMAIN alignment_results)]

\* score >= pct / 100
ScoreAtLeast(score, pct) == 100 * score.num >= pct * score.den

\* the test of initiate_collaboration that ends the session as failed
InsufficientAlignment(alignment_results) ==
    /\ orchConfig.require_alignment_for_negotiation
    /\ CountStatus(alignment_results, "aligned") < required_aligned_strategies
    /\ ~ScoreAtLeast(AlignmentScore(alignment_results),
                     min_alignment_confidence)

\* XenoCommOrchestrator._optimize_params_for_agents (custom_params, which
\* the streaming capability sets, is not part of the params of the model)
optimize_params_for_agents(agent_a, agent_b, base_params) ==
    LET shared_caps == agent_a.capabilities \cap agent_b.capabilities
        p1 == IF "msgpack" \in shared_caps
              THEN [base_params EXCEPT !.data_format = "msgpack",
                                       !.compression = None]
              ELSE base_params
    IN IF "high_throughput" \in shared_caps
       THEN [p1 EXCEPT !.max_message_size = 10 * 1024 * 1024]
       ELSE p1

\* the session is stored under session_id and the call returns it
StoreCollaboration(session_id, session, seen) ==
    /\ collaborations' = Append(collaborations, session)
    /\ orchLog' = OrchOp("initiate_collaboration", session_id, FALSE, seen)
    /\ UNCHANGED <<orchConfig, agent_registry, hooks>>

\* the call ends with the Exception of a callback: no session is stored
AbortCollaboration(session_id, seen) ==
    /\ orchLog' = OrchOp("initiate_collaboration", session_id, TRUE, seen)
    /\ UNCHANGED <<orchConfig, agent_registry, collaborations, hooks>>

\* XenoCommOrchestrator.initiate_collaboration; the session ids are handed
\* out in the order 1, 2, ...
initiate_collaboration(agent_a_id, agent_b_id, required_domains, proposed_params) ==
    IF agent_a_id \notin DOMAIN agent_registry
       \/ agent_b_id \notin DOMAIN agent_registry
    THEN OrchRaise /\ UNCHANGED negVars
    ELSE
    LET agent_a == agent_registry[agent_a_id]
        agent_b == agent_registry[agent_b_id]
        sid == Len(collaborations) + 1
        results == full_alignment_check(agent_a, agent_b, required_domains)
        score == AlignmentScore(results)
        aligning == [CollaborationSession(agent_a_id, agent_b_id) EXCEPT
                        !.alignment_results = results,
                        !.alignment_score = score]
        h1 == trigger_hooks("on_alignment_complete", collaborations, sid,
                            aligning)
        params == IF ScoreAtLeast(score, auto_accept_threshold)
                  THEN optimize_params_for_agents(agent_a, agent_b,
                                                  proposed_params)
                  ELSE proposed_params
        negotiating == [aligning EXCEPT !.state = "negotiating",
                                        !.negotiation_session = nextId + 1]
        h2 == trigger_hooks("on_negotiation_complete", collaborations, sid,
                            negotiating)
        active == [negotiating EXCEPT !.state = "active"]
        h3 == trigger_hooks("on_session_ready", collaborations, sid, active)
    IN IF h1.raised
       THEN AbortCollaboration(sid, h1.seen) /\ UNCHANGED negVars
       ELSE IF InsufficientAlignment(results)
       THEN /\ StoreCollaboration(
                   sid,
                   [aligning EXCEPT
                       !.state = "failed", !.ended = "failed",
                       !.failure_reason = "Insufficient alignment"],
                   h1.seen)
            /\ UNCHANGED negVars
       ELSE /\ initiate_session(agent_a_id, agent_b_id, params, 0)
            /\ IF config.require_validation /\ ~validate(params)
               THEN AbortCollaboration(sid, h1.seen)
               ELSE IF h2.raised
               THEN AbortCollaboration(sid, h1.seen \o h2.seen)
               ELSE IF h3.raised
               THEN AbortCollaboration(sid, h1.seen \o h2.seen \o h3.seen)
               ELSE StoreCollaboration(sid, active,
                                       h1.seen \o h2.seen \o h3.seen)

\* XenoCommOrchestrator.propose_protocol_evolution
propose_protocol_evolution(session_id) ==
    IF session_id \notin DOMAIN collaborations
    THEN OrchRaise /\ UNCHANGED engVars
    ELSE LET session ==
                 [collaborations[session_id] EXCEPT
                     !.pending_variants = Append(@, Len(variants) + 1)]
             stored == [collaborations EXCEPT ![session_id] = session]
             h == trigger_hooks("on_evolution_triggered", stored, session_id,
                                session)
         IN /\ propose_variant
            /\ collaborations' = stored
            /\ orchLog' = OrchOp("propose_protocol_evolution", session_id,
                                 h.raised, h.seen)
            /\ UNCHANGED <<orchConfig, agent_registry, hooks>>

\* EmergenceEngine.should_rollback: the tuple (needed, reason)
should_rollback(v, circuit, t) ==
    LET reason == should_auto_rollback(v, circuit, t)
    IN <<reason # None, reason>>

\* bool(x) of a tuple, as "if x:" takes it: only the empty tuple is false
Truthy(tuple) == Len(tuple) > 0

\* the record of a call of evolve_session_protocol: the variant and the
\* "action" of the dict returned
EvolveOp(session_id, vid, action) ==
    [op |-> "evolve_session_protocol", id |-> session_id, raised |-> FALSE,
     seen |-> << >>, variant |-> vid, action |-> action]

\* XenoCommOrchestrator.evolve_session_protocol
evolve_session_protocol(session_id, vid) ==
    IF session_id \notin DOMAIN collaborations \/ ~HasVariant(vid)
    THEN OrchRaise /\ UNCHANGED engVars
    ELSE
    LET status == variants[vid].status
        logged(action) ==
            /\ orchLog' = EvolveOp(session_id, vid, action)
            /\ UNCHANGED <<orchConfig, agent_registry, hooks>>
    IN CASE status = "proposed" ->
                /\ start_testing(vid)
                /\ logged("started_testing")
                /\ UNCHANGED collaborations
         [] status = "testing" ->
                /\ start_canary(vid, 0)
                /\ logged("started_canary")
                /\ UNCHANGED collaborations
         [] status = "canary" ->
                IF Truthy(should_rollback(variants[vid], circuit_breakers[vid],
                                          clock))
                THEN /\ rollback(vid, "manual")
                     /\ logged("rolled_back")
                     /\ UNCHANGED collaborations
                ELSE /\ ramp_canary(vid, FALSE)
                     /\ logged("ramped_canary")
                     /\ collaborations' =
                            IF variants'[vid].status = "active"
                            THEN [collaborations EXCEPT
                                     ![session_id].active_variant_id = vid]
                            ELSE collaborations
         [] status = "active" ->
                /\ logged("already_active")
                /\ UNCHANGED <<collaborations, engVars>>
         [] OTHER ->
                /\ logged("no_action")
                /\ UNCHANGED <<collaborations, engVars>>

\* the record of a call of report_session_metrics: whether the dict
\* returned carries "should_rollback"
ReportOp(session_id, warned) ==
    [op |-> "report_session_metrics", id |-> session_id, raised |-> FALSE,
     seen |-> << >>, should_rollback |-> warned]

\* XenoCommOrchestrator.report_session_metrics
report_session_metrics(session_id, metrics) ==
    IF session_id \notin DOMAIN collaborations
    THEN OrchRaise /\ UNCHANGED engVars
    ELSE LET vid == collaborations[session_id].active_variant_id
         IN /\ IF vid # 0
               THEN /\ track_performance(vid, metrics)
                    /\ orchLog' =
                           ReportOp(session_id,
                                    Truthy(should_rollback(
                                               variants'[vid],
                                               circuit_breakers'[vid], clock)))
               ELSE /\ orchLog' = ReportOp(session_id, FALSE)
                    /\ UNCHANGED engVars
            /\ UNCHANGED <<orchConfig, agent_registry, collaborations, hooks>>

\* a call of the session management returns: session_id is now session
StoreSession(op, session_id, session) ==
    /\ collaborations' = [collaborations EXCEPT ![session_id] = session]
    /\ orchLog' = OrchOp(op, session_id, FALSE, << >>)
    /\ UNCHANGED <<orchConfig, agent_registry, hooks>>

\* XenoCommOrchestrator.suspend_session (metadata["suspend_reason"] is read
\* by no modelled operation)
suspend_session(session_id) ==
    IF session_id \notin DOMAIN collaborations
    THEN OrchRaise
    ELSE StoreSession("suspend_session", session_id,
                      [collaborations[session_id] EXCEPT
                          !.state = "suspended"])

\* XenoCommOrchestrator.resume_session
resume_session(session_id) ==
    IF session_id \notin DOMAIN collaborations
       \/ collaborations[session_id].state # "suspended"
    THEN OrchRaise
    ELSE StoreSession("resume_session", session_id,
                      [collaborations[session_id] EXCEPT !.state = "active"])

\* XenoCommOrchestrator.close_session; a ValueError of the negotiation
\* engine is swallowed
orchestrator_close_session(session_id) ==
    IF session_id \notin DOMAIN collaborations
    THEN OrchRaise /\ UNCHANGED negVars
    ELSE LET session == collaborations[session_id]
         IN /\ StoreSession("close_session", session_id,
                            [session EXCEPT
                                !.state = "completed",
                                !.ended = IF @ = None THEN "completed" ELSE @])
            /\ IF session.negotiation_session # 0
               THEN close_session(session.negotiation_session,
                                  session.agent_a_id, "Session closed")
               ELSE UNCHANGED negVars

\* ------------------------------------------------- concurrent callers
\* (src/mcp_server/xenocomm_mcp/negotiation.py: check_all_timeouts,
\* check_timeout and _archive_session hold no lock, so the statements of
\* two calls interleave; a session is one object, shared by self.sessions,
\* self._completed_sessions and the callers that hold it)
Threads == {"request", "sweep"}

\* a thread outside check_all_timeouts
IdleThread == [pc |-> "idle", keys |-> << >>, timed_out |-> << >>]

ThreadsInit == threads = [t \in Threads |-> IdleThread]

\* list(self.sessions.keys()): the keys in order of creation
RECURSIVE KeyList(_)
KeyList(keys) ==
    IF keys = {} THEN << >>
    ELSE LET i == CHOOSE k \in keys : \A j \in keys : k <= j
         IN <<i>> \o KeyList(keys \ {i})

\* the session object with the id, in self.sessions or archived
SessionObject(sid) ==
    IF sid \in DOMAIN sessions THEN sessions[sid]
    ELSE completed[CHOOSE i \in 1..Len(completed) :
                       completed[i].session_id = sid]

\* an assignment to the fields of the session object shows wherever the
\* object is held
WriteSession(s) ==
    /\ sessions' = [k \in DOMAIN sessions |->
                       IF k = s.session_id THEN s ELSE sessions[k]]
    /\ completed' = [i \in 1..Len(completed) |->
                        IF completed[i].session_id = s.session_id
                        THEN s ELSE completed[i]]

\* thread t moves to pc
Goto(t, pc) == threads' = [threads EXCEPT ![t].pc = pc]

\* the next turn of the loop of check_all_timeouts, after check_timeout
\* returned expired
NextKey(t, expired) ==
    threads' = [threads EXCEPT
                   ![t].pc = "get",
                   ![t].timed_out =
                       IF expired THEN Append(@, Head(threads[t].keys))
                       ELSE @,
                   ![t].keys = Tail(@)]

\* check_all_timeouts, line 650: the snapshot of the keys
SweepStart(t) ==
    /\ threads[t].pc = "idle"
    /\ threads' = [threads EXCEPT ![t].pc = "get",
                                  ![t].keys = KeyList(DOMAIN sessions)]
    /\ UNCHANGED negVars

\* check_all_timeouts returns, or check_timeout calls _get_session, which
\* raises ValueError for a session that is no longer in self.sessions
SweepGet(t) ==
    /\ threads[t].pc = "get"
    /\ IF threads[t].keys = << >> THEN Goto(t, "returned")
       ELSE IF ~HasSession(Head(threads[t].keys)) THEN Goto(t, "raised")
       ELSE Goto(t, "check")
    /\ UNCHANGED negVars

\* check_timeout on the session it holds, up to the call of
\* _archive_session
SweepCheck(t) ==
    /\ threads[t].pc = "check"
    /\ LET sid == Head(threads[t].keys)
           held == [sessions |-> (sid :> SessionObject(sid)),
                    completed |-> << >>, hist |-> hist]
           r == CheckTimeout(held, sid, now)
       IN /\ hist' = r.engine.hist
          /\ IF sid \in DOMAIN r.engine.sessions
             THEN /\ WriteSession(r.engine.sessions[sid])
                  /\ NextKey(t, r.timed_out)
             ELSE /\ WriteSession(r.engine.completed[1])
                  /\ Goto(t, "append")
    /\ UNCHANGED <<config, nextId, now, lastOp>>

\* _archive_session, line 816
SweepAppend(t) ==
    /\ threads[t].pc = "append"
    /\ completed' = Append(completed, SessionObject(Head(threads[t].keys)))
    /\ Goto(t, "member")
    /\ UNCHANGED <<config, sessions, nextId, now, lastOp, hist>>

\* _archive_session, line 817: the test session_id in self.sessions
SweepMember(t) ==
    /\ threads[t].pc = "member"
    /\ IF HasSession(Head(threads[t].keys)) THEN Goto(t, "del")
       ELSE NextKey(t, TRUE)
    /\ UNCHANGED negVars

\* _archive_session, line 818: del self.sessions[session_id] raises
\* KeyError for a key that is gone
SweepDelete(t) ==
    /\ threads[t].pc = "del"
    /\ LET sid == Head(threads[t].keys)
       IN IF HasSession(sid)
          THEN /\ sessions' = [k \in DOMAIN sessions \ {sid} |-> sessions[k]]
               /\ NextKey(t, TRUE)
          ELSE /\ Goto(t, "raised")
               /\ UNCHANGED sessions
    /\ UNCHANGED <<config, completed, nextId, now, lastOp, hist>>

\* one statement of a thread that calls check_all_timeouts
SweepStep(t) ==
    \/ SweepStart(t)
    \/ SweepGet(t)
    \/ SweepCheck(t)
    \/ SweepAppend(t)
    \/ SweepMember(t)
    \/ SweepDelete(t)

\* ------------------------------------------------- workflows
\* (src/mcp_server/xenocomm_mcp/workflows.py)
\* An execution id is the place of the execution in the order of creation.
\* execute_step is one call; where its handler calls the engines more than
\* once, the model makes the calls one after the other, and nothing else
\* happens in between: calls counts the engine calls the running handler
\* has made.
Workflows ==
    {"multi_agent_onboarding", "protocol_evolution", "error_recovery",
     "conflict_resolution"}

\* the step ids the start method of each workflow gives its execution
StepIds(workflow_name) ==
    CASE workflow_name = "multi_agent_onboarding" ->
             <<"register", "alignment", "negotiate", "establish", "verify">>
      [] workflow_name = "protocol_evolution" ->
             <<"propose", "test", "canary", "monitor", "decide">>
      [] workflow_name = "error_recovery" ->
             <<"detect", "isolate", "recover", "notify", "resume">>
      [] workflow_name = "conflict_resolution" ->
             <<"identify", "analyze", "propose", "negotiate", "document">>

\* WorkflowStep(step_id, name, description)
WorkflowStep(step_id) == [step_id |-> step_id, status |-> "pending"]

\* execution.context: what start is given and what the handlers add to it
\* (variant_id = 0: none yet)
WorkflowContext(error_type, affected_agents) ==
    [error_type |-> error_type, affected_agents |-> affected_agents,
     variant_id |-> 0, decision |-> None]

\* WorkflowExecution as the start method of a workflow returns it
WorkflowExecution(workflow_name, context) ==
    [workflow_name |-> workflow_name, status |-> "running",
     steps |-> [i \in 1..Len(StepIds(workflow_name)) |->
                   WorkflowStep(StepIds(workflow_name)[i])],
     current_step_index |-> 0, context |-> context, calls |-> 0]

\* the record of a call of a workflow
WfOp(op, id, step_id, outcome) ==
    [op |-> op, id |-> id, step_id |-> step_id, outcome |-> outcome]

WorkflowInit ==
    /\ executions = << >>
    /\ wfLog = WfOp("init", 0, None, None)

\* start of any of the four workflows
start(workflow_name, context) ==
    /\ executions' = Append(executions,
                            WorkflowExecution(workflow_name, context))
    /\ wfLog' = WfOp("start", Len(executions) + 1, None, None)

\* the step execute_step runs
CurrentStep(e) == e.steps[e.current_step_index + 1]

\* execute_step around its handler: the handler goes on ("more"), raised
\* an Exception ("raised") or returned ("done") with the context and the
\* execution status it has set
Proceed_step_left_running(eid, outcome, context, status) ==
    LET e == executions[eid]
        i == e.current_step_index + 1
    IN /\ executions' = [executions EXCEPT ![eid] =
              CASE outcome = "more" ->
                       [e EXCEPT !.steps[i].status = "running",
                                 !.context = context, !.calls = @ + 1]
                [] outcome = "raised" ->
                       [e EXCEPT !.steps[i].status = "failed",
                                 !.status = "failed", !.calls = 0]
                [] outcome = "done" ->
                       [e EXCEPT !.steps[i].status = "running",
                                 !.current_step_index = i,
                                 !.status = IF i >= Len(e.steps)
                                            THEN "completed" ELSE status,
                                 !.context = context, !.calls = 0]]
       /\ wfLog' = WfOp("execute_step", eid, CurrentStep(e).step_id, outcome)

Proceed(eid, outcome, context, status) ==
    LET e == executions[eid]
        i == e.current_step_index + 1
    IN /\ executions' = [executions EXCEPT ![eid] =
              CASE outcome = "more" ->
                       [e EXCEPT !.steps[i].status = "running",
                                 !.context = context, !.calls = @ + 1]
                [] outcome = "raised" ->
                       [e EXCEPT !.steps[i].status = "failed",
                                 !.status = "failed", !.calls = 0]
                [] outcome = "done" ->
                       [e EXCEPT !.steps[i].status = "completed",
                                 !.current_step_index = i,
                                 !.status = IF i >= Len(e.steps)
                                            THEN "completed" ELSE status,
                                 !.context = context, !.calls = 0]]
       /\ wfLog' = WfOp("execute_step", eid, CurrentStep(e).step_id, outcome)

\* the handler returns without a call of an engine
Done(eid) ==
    /\ Proceed(eid, "done", executions[eid].context, "running")
    /\ UNCHANGED <<negVars, engVars>>

\* the handler raises before it calls an engine
Failed(eid) ==
    /\ Proceed(eid, "raised", executions[eid].context, "running")
    /\ UNCHANGED <<negVars, engVars>>

\* the call of the emergence engine a handler has just made raised
EmRaised == engVars' = engVars

\* the metrics _step_test reports
TestMetrics == PerformanceMetrics(99, 50, 0)

\* ProtocolEvolutionWorkflow: the handlers _step_propose, _step_test,
\* _step_canary, _step_monitor and _step_decide
EvolutionStep(eid, step_id) ==
    LET e == executions[eid]
        variant_id == e.context.variant_id
    IN /\ UNCHANGED negVars
       /\ CASE step_id = "propose" ->
                   /\ propose_variant
                   /\ Proceed(eid, "done",
                              [e.context EXCEPT
                                  !.variant_id = Len(variants) + 1],
                              "running")
            [] step_id = "test" /\ e.calls = 0 ->
                   /\ start_testing(variant_id)
                   /\ Proceed(eid, IF EmRaised THEN "raised" ELSE "more",
                              e.context, "running")
            [] step_id = "test" /\ e.calls > 0 ->
                   /\ track_performance(variant_id, TestMetrics)
                   /\ Proceed(eid, "done", e.context, "running")
            [] step_id = "canary" ->
                   /\ start_canary(variant_id, 0)
                   /\ Proceed(eid, IF EmRaised THEN "raised" ELSE "done",
                              e.context, "running")
            [] step_id = "monitor" ->
                   /\ Proceed(eid, "done", e.context, "running")
                   /\ UNCHANGED engVars
            [] step_id = "decide" ->
                   LET reason ==
                           should_auto_rollback(variants[variant_id],
                                                circuit_breakers[variant_id],
                                                clock)
                   IN IF e.calls = 0 /\ reason # None
                      THEN /\ rollback(variant_id, reason)
                           /\ Proceed(eid, "done",
                                      [e.context EXCEPT
                                          !.decision = "rollback"],
                                      "rolled_back")
                      ELSE IF variants[variant_id].status = "canary"
                      THEN /\ ramp_canary(variant_id, TRUE)
                           /\ Proceed(eid, "more", e.context, "running")
                      ELSE /\ Proceed(eid, "done",
                                      [e.context EXCEPT
                                          !.decision = "full_rollout"],
                                      "running")
                           /\ UNCHANGED engVars

\* the sessions _step_isolate closes for the agent: those of
\* list_sessions(agent_id) that are neither finalized nor closed
OpenSessionsOf(agent_id) ==
    {sid \in DOMAIN sessions :
        /\ agent_id \in {sessions[sid].initiator_id,
                         sessions[sid].responder_id}
        /\ sessions[sid].state \notin {"finalized", "closed"}}

\* the variants list_variants(status) returns
VariantsWith(status) ==
    {vid \in DOMAIN variants : variants[vid].status = status}

\* the first of a set of ids, in the order of creation
First(ids) == CHOOSE i \in ids : \A j \in ids : i <= j

\* ErrorRecoveryWorkflow: the handlers _step_detect, _step_isolate,
\* _step_recover, _step_notify and _step_resume; a loop over sessions or
\* variants makes one call for each, which takes it out of the list
RecoveryStep(eid, step_id) ==
    LET e == executions[eid]
        affected == e.context.affected_agents
        error_type == e.context.error_type
        closing == {i \in 1..Len(affected) : OpenSessionsOf(affected[i]) # {}}
    IN CASE step_id \in {"detect", "notify"} -> Done(eid)
         [] step_id = "isolate" ->
                IF closing = {} THEN Done(eid)
                ELSE /\ close_session(First(OpenSessionsOf(affected[First(closing)])),
                                      affected[First(closing)],
                                      "Error recovery isolation")
                     /\ Proceed(eid, "more", e.context, "running")
                     /\ UNCHANGED engVars
         [] step_id = "recover" /\ error_type = "timeout" ->
                /\ check_all_timeouts
                /\ Proceed(eid, "done", e.context, "running")
                /\ UNCHANGED engVars
         [] step_id = "recover" /\ error_type = "alignment_failure" ->
                IF affected # << >> THEN Failed(eid) ELSE Done(eid)
         [] step_id = "recover" /\ error_type = "protocol_mismatch" ->
                IF VariantsWith("canary") = {} THEN Done(eid)
                ELSE /\ rollback(First(VariantsWith("canary")), "manual")
                     /\ Proceed(eid, "more", e.context, "running")
                     /\ UNCHANGED negVars
         [] step_id = "recover"
            /\ error_type \notin {"timeout", "alignment_failure",
                                  "protocol_mismatch"} -> Done(eid)
         [] step_id = "resume" ->
                IF VariantsWith("paused") = {} THEN Done(eid)
                ELSE /\ resume_variant(First(VariantsWith("paused")))
                     /\ Proceed(eid, "more", e.context, "running")
                     /\ UNCHANGED negVars

\* MultiAgentOnboardingWorkflow._step_register and
\* ConflictResolutionWorkflow._step_identify read
\* self.orchestrator.alignment.contexts, an attribute AlignmentEngine does
\* not have: AttributeError.  No later handler of the two workflows is ever
\* dispatched.
ContextsStep(eid, step_id) ==
    CASE step_id \in {"register", "identify"} -> Failed(eid)

\* execute_step of the workflow of the execution
execute_step(eid) ==
    LET e == executions[eid]
    IN IF eid \notin DOMAIN executions \/ e.status # "running"
       THEN UNCHANGED <<negVars, engVars, wfVars>>
       ELSE IF e.current_step_index >= Len(e.steps)
       THEN /\ executions' = [executions EXCEPT ![eid].status = "completed"]
            /\ wfLog' = WfOp("execute_step", eid, None, "done")
            /\ UNCHANGED <<negVars, engVars>>
       ELSE CASE e.workflow_name = "protocol_evolution" ->
                     EvolutionStep(eid, CurrentStep(e).step_id)
              [] e.workflow_name = "error_recovery" ->
                     RecoveryStep(eid, CurrentStep(e).step_id)
              [] OTHER -> ContextsStep(eid, CurrentStep(e).step_id)

\* ------------------------------------------------- negotiation tools
\* (src/mcp_server/xenocomm_mcp/server.py: the tools call the negotiation
\* engine of the orchestrator; a dict of params is the set of its items,
\* and the empty set stands for both None and {})
\* NegotiableParams.from_dict, for the fields of the model
from_dict(data) ==
    [k \in DOMAIN DefaultParams |->
        IF \E item \in data : item[1] = k
        THEN (CHOOSE item \in data : item[1] = k)[2]
        ELSE DefaultParams[k]]

\* the record of a call of a tool: result is "session" when the tool
\* returned session.to_dict(), "error" when it returned {"error": ...} and
\* "raised" when the engine raised ValueError
ToolOp(tool, session_id, agent_id, response, params, result, calls) ==
    [tool |-> tool, session_id |-> session_id, agent_id |-> agent_id,
     response |-> response, params |-> params, result |-> result,
     calls |-> calls]

ToolInit == toolLog = ToolOp("init", 0, None, None, {}, "none", 0)

ToolReturn(tool, session_id, agent_id, response, params, result) ==
    toolLog' = ToolOp(tool, session_id, agent_id, response, params, result,
                      toolLog.calls + 1)

\* whether the call op of the engine raises ValueError
EngineRaises(op, sid, agent_id) ==
    \/ ~HasSession(sid)
    \/ CASE op = "respond_accept" ->
               \/ sessions[sid].responder_id # agent_id
               \/ sessions[sid].state
                      \notin {"proposal_received", "counter_received"}
         [] op = "respond_counter" ->
               \/ sessions[sid].responder_id # agent_id
               \/ sessions[sid].state # "proposal_received"
         [] op = "respond_reject" ->
               sessions[sid].responder_id # agent_id
         [] op = "accept_counter" ->
               \/ sessions[sid].initiator_id # agent_id
               \/ sessions[sid].state # "awaiting_finalization"
               \/ sessions[sid].counter_params = NoParams
         [] op = "finalize_session" ->
               \/ sessions[sid].initiator_id # agent_id
               \/ sessions[sid].state
                      \notin {"awaiting_finalization", "finalizing"}

\* what a tool returns after the call op of the engine
EngineResult(op, sid, agent_id) ==
    IF EngineRaises(op, sid, agent_id) THEN "raised" ELSE "session"

initiate_negotiation(initiator_id, responder_id, proposed_params) ==
    LET params == from_dict(proposed_params)
    IN /\ initiate_session(initiator_id, responder_id, params, 0)
       /\ ToolReturn("initiate_negotiation", nextId', initiator_id, None,
                     proposed_params,
                     IF config.require_validation /\ ~validate(params)
                     THEN "raised" ELSE "session")

\* respond_counter converts the dict it is given with from_dict
respond_to_negotiation(session_id, responder_id, response, counter_params, reason) ==
    CASE response = "accept" ->
            /\ respond_accept(session_id, responder_id)
            /\ ToolReturn("respond_to_negotiation", session_id, responder_id,
                          response, counter_params,
                          EngineResult("respond_accept", session_id,
                                       responder_id))
      [] response = "counter" ->
            IF counter_params = {}
            THEN /\ ToolReturn("respond_to_negotiation", session_id,
                               responder_id, response, counter_params, "error")
                 /\ UNCHANGED negVars
            ELSE /\ respond_counter(session_id, responder_id,
                                    from_dict(counter_params))
                 /\ ToolReturn("respond_to_negotiation", session_id,
                               responder_id, response, counter_params,
                               EngineResult("respond_counter", session_id,
                                            responder_id))
      [] response = "reject" ->
            /\ respond_reject(session_id, responder_id, reason)
            /\ ToolReturn("respond_to_negotiation", session_id, responder_id,
                          response, counter_params,
                          EngineResult("respond_reject", session_id,
                                       responder_id))
      [] OTHER ->
            /\ ToolReturn("respond_to_negotiation", session_id, responder_id,
                          response, counter_params, "error")
            /\ UNCHANGED negVars

accept_counter_proposal(session_id, initiator_id) ==
    /\ accept_counter(session_id, initiator_id)
    /\ ToolReturn("accept_counter_proposal", session_id, initiator_id, None,
                  {}, EngineResult("accept_counter", session_id, initiator_id))

finalize_negotiation(session_id, initiator_id) ==
    /\ finalize_session(session_id, initiator_id)
    /\ ToolReturn("finalize_negotiation", session_id, initiator_id, None, {},
                  EngineResult("finalize_session", session_id, initiator_id))

\* ------------------------------------------------- event bus
\* (src/mcp_server/xenocomm_mcp/observation.py: every method of EventBus
\* works on the events under the lock of the bus, so a call is one step)
FlowTypes == {"negotiation", "system"}

\* the callables subscribed: a sensor's handler and
\* EventPersistence.write_event
BusCallbacks == {"on_event", "write_event"}

SubscriberIds == {"s1", "s2"}

\* FlowEvent: event_id is the uuid4 of the event, which the model draws in
\* the order of publication
FlowEvent(event_id, flow_type) ==
    [event_id |-> event_id, flow_type |-> flow_type]

\* EventBus.__init__; subscribers is the dict _subscribers in insertion
\* order, type_subscribers and event_counts hold an empty list and 0 for a
\* key the dict of the code does not have
EventBus(max_history) ==
    [max_history |-> max_history,
     events |-> << >>,
     subscribers |-> << >>,
     type_subscribers |-> [ft \in FlowTypes |-> << >>],
     event_counts |-> [ft \in FlowTypes |-> 0]]

\* the record of a call: ret is the list get_recent_events returned,
\* notified the callbacks publish called and whether each raised
BusOp(op, ret, notified) == [op |-> op, ret |-> ret, notified |-> notified]

BusInit ==
    /\ event_bus \in {EventBus(max_history) : max_history \in 0..MaxHistory}
    /\ published = << >>
    /\ busLog = BusOp("init", << >>, << >>)

\* deque.append without maxlen
DequeAppend_unbounded(events, event, maxlen) == Append(events, event)

\* deque(maxlen = max_history).append: a full deque drops its first item,
\* a deque of length 0 takes nothing
DequeAppend(events, event, maxlen) ==
    IF maxlen = 0 THEN events
    ELSE IF Len(events) = maxlen THEN Append(Tail(events), event)
    ELSE Append(events, event)

\* the callbacks in cbs that are not in seen, each once, in order
RECURSIVE Deduplicated(_, _)
Deduplicated(cbs, seen) ==
    IF cbs = << >> THEN << >>
    ELSE IF Head(cbs) \in seen THEN Deduplicated(Tail(cbs), seen)
    ELSE <<Head(cbs)>> \o Deduplicated(Tail(cbs), seen \cup {Head(cbs)})

\* the callbacks _notify_subscribers collects for event: the general
\* subscribers, then those of the flow type of event, each once
CallbacksFor(bus, event) ==
    Deduplicated([i \in 1..Len(bus.subscribers) |-> bus.subscribers[i].callback]
                     \o bus.type_subscribers[event.flow_type], {})

\* the invocations of cbs, of which the callbacks in failing raise
Invoked(cbs, failing) ==
    [i \in 1..Len(cbs) |-> [callback |-> cbs[i], raised |-> cbs[i] \in failing]]

\* _notify_subscribers without its try/except: the first callback that
\* raises ends the loop and the call
notify_subscribers_unguarded(bus, event, failing) ==
    LET cbs == CallbacksFor(bus, event)
        stops == {i \in 1..Len(cbs) : cbs[i] \in failing}
        last == IF stops = {} THEN Len(cbs)
                ELSE CHOOSE i \in stops : \A j \in stops : i <= j
    IN [called |-> Invoked(SubSeq(cbs, 1, last), failing),
        raised |-> stops # {}]

\* EventBus._notify_subscribers: the callbacks called, of which those in
\* failing raise an Exception; "except Exception: pass" drops it
notify_subscribers(bus, event, failing) ==
    [called |-> Invoked(CallbacksFor(bus, event), failing), raised |-> FALSE]

\* the callbacks in failing raise when they are given event; a call that
\* raised is logged as "publish_raised"
publish(event, failing) ==
    LET notified == notify_subscribers(event_bus, event, failing)
    IN /\ event_bus' =
              [event_bus EXCEPT
                  !.events = DequeAppend(@, event, event_bus.max_history),
                  !.event_counts[event.flow_type] = @ + 1]
       /\ published' = Append(published, event)
       /\ busLog' = BusOp(IF notified.raised THEN "publish_raised"
                          ELSE "publish", << >>, notified.called)

\* "self._type_subscribers[ft].append(callback)" for each ft of flow_types
RECURSIVE AppendToTypes(_, _, _)
AppendToTypes(type_subscribers, flow_types, callback) ==
    IF flow_types = << >> THEN type_subscribers
    ELSE AppendToTypes([type_subscribers EXCEPT
                           ![Head(flow_types)] = Append(@, callback)],
                       Tail(flow_types), callback)

\* the place of subscriber_id in _subscribers, 0 if it has none
PlaceOf(subscribers, subscriber_id) ==
    IF \E i \in DOMAIN subscribers : subscribers[i].subscriber_id = subscriber_id
    THEN CHOOSE i \in DOMAIN subscribers :
             subscribers[i].subscriber_id = subscriber_id
    ELSE 0

\* flow_types = << >> stands for both None and []
subscribe(subscriber_id, callback, flow_types) ==
    LET place == PlaceOf(event_bus.subscribers, subscriber_id)
        entry == [subscriber_id |-> subscriber_id, callback |-> callback]
    IN /\ event_bus' =
              [event_bus EXCEPT
                  !.subscribers = IF place = 0 THEN Append(@, entry)
                                  ELSE [@ EXCEPT ![place] = entry],
                  !.type_subscribers = AppendToTypes(@, flow_types, callback)]
       /\ busLog' = BusOp("subscribe", << >>, << >>)
       /\ UNCHANGED published

\* list.remove: the list without the first x, if it has one
RemoveFirst(seq, x) ==
    IF \E i \in DOMAIN seq : seq[i] = x
    THEN LET first == CHOOSE i \in DOMAIN seq :
                          seq[i] = x /\ \A j \in 1..(i - 1) : seq[j] # x
         IN SubSeq(seq, 1, first - 1) \o SubSeq(seq, first + 1, Len(seq))
    ELSE seq

unsubscribe(subscriber_id) ==
    LET place == PlaceOf(event_bus.subscribers, subscriber_id)
    IN /\ event_bus' =
              IF place = 0 THEN event_bus
              ELSE [event_bus EXCEPT
                       !.subscribers = SubSeq(@, 1, place - 1)
                                           \o SubSeq(@, place + 1, Len(@)),
                       !.type_subscribers =
                           [ft \in FlowTypes |->
                               RemoveFirst(@[ft],
                                   event_bus.subscribers[place].callback)]]
       /\ busLog' = BusOp("unsubscribe", << >>, << >>)
       /\ UNCHANGED published

\* the slice seq[first:] of Python
SliceFrom(seq, first) ==
    LET from == IF first < 0
                THEN (IF Len(seq) + first < 0 THEN 0 ELSE Len(seq) + first)
                ELSE (IF first > Len(seq) THEN Len(seq) ELSE first)
    IN SubSeq(seq, from + 1, Len(seq))

\* the events of flow_type, all of them for None
EventsOf(events, flow_type) ==
    IF flow_type = None THEN events
    ELSE SelectSeq(events, LAMBDA e : e.flow_type = flow_type)

get_recent_events(count, flow_type) ==
    /\ busLog' = BusOp("get_recent_events",
                       SliceFrom(EventsOf(event_bus.events, flow_type), -count),
                       << >>)
    /\ UNCHANGED <<event_bus, published>>

clear ==
    /\ event_bus' = [event_bus EXCEPT
                        !.events = << >>,
                        !.event_counts = [ft \in FlowTypes |-> 0]]
    /\ busLog' = BusOp("clear", << >>, << >>)
    /\ UNCHANGED published

\* ------------------------------------------------- event bus: threads
\* (src/mcp_server/xenocomm_mcp/observation.py: the calls of several
\* threads, statement by statement; _lock is a threading.RLock, which its
\* owner may take again and which is free once released as often as taken)
BusThreads == {"t1", "t2"}

\* the arguments of a call that a thread has begun
BusCallOf(op, subscriber_id, callback, flow_types) ==
    [op |-> op, subscriber_id |-> subscriber_id, callback |-> callback,
     flow_types |-> flow_types]

NoBusCall == BusCallOf(None, None, None, << >>)

\* a thread outside every call of the bus
IdleBusThread ==
    [pc |-> "idle", call |-> NoBusCall, event |-> FlowEvent(0, None),
     pending |-> << >>, inner |-> NoBusCall]

BusThreadsInit ==
    /\ busLock = [owner |-> None, count |-> 0]
    /\ busThreads = [t \in BusThreads |-> IdleBusThread]

\* RLock.acquire does not block thread t
CanAcquire(t) == busLock.owner \in {None, t}

\* "with self._lock:" entered by thread t
Acquired(t) == [owner |-> t, count |-> busLock.count + 1]

\* "with self._lock:" left by its owner
Released ==
    IF busLock.count = 1 THEN [owner |-> None, count |-> 0]
    ELSE [busLock EXCEPT !.count = @ - 1]

AtBus(t, pc) == busThreads' = [busThreads EXCEPT ![t].pc = pc]

\* publish, line 126: thread t takes the lock
PublishEnter(t, flow_type) ==
    /\ busThreads[t].pc = "idle" /\ CanAcquire(t)
    /\ busLock' = Acquired(t)
    /\ busThreads' = [busThreads EXCEPT
                         ![t].pc = "append",
                         ![t].call = BusCallOf("publish", None, None, << >>),
                         ![t].event = FlowEvent(0, flow_type)]
    /\ UNCHANGED <<event_bus, published, busLog>>

\* publish with the callbacks notified inside "with self._lock:"
PublishAppend_notify_inside(t) ==
    /\ busThreads[t].pc = "append"
    /\ LET event == FlowEvent(Len(published) + 1,
                              busThreads[t].event.flow_type)
       IN /\ event_bus' =
                 [event_bus EXCEPT
                     !.events = DequeAppend(@, event, event_bus.max_history),
                     !.event_counts[event.flow_type] = @ + 1]
          /\ published' = Append(published, event)
          /\ busThreads' = [busThreads EXCEPT ![t].pc = "notify",
                                              ![t].event = event]
    /\ UNCHANGED <<busLock, busLog>>

\* publish, lines 127-131: the event is appended and counted, the lock
\* released; the event gets its place in the order of publication
PublishAppend(t) ==
    /\ busThreads[t].pc = "append"
    /\ LET event == FlowEvent(Len(published) + 1,
                              busThreads[t].event.flow_type)
       IN /\ event_bus' =
                 [event_bus EXCEPT
                     !.events = DequeAppend(@, event, event_bus.max_history),
                     !.event_counts[event.flow_type] = @ + 1]
          /\ published' = Append(published, event)
          /\ busThreads' = [busThreads EXCEPT ![t].pc = "notify",
                                              ![t].event = event]
    /\ busLock' = Released
    /\ UNCHANGED busLog

\* _notify_subscribers, line 162: thread t takes the lock
NotifyEnter(t) ==
    /\ busThreads[t].pc = "notify" /\ CanAcquire(t)
    /\ busLock' = Acquired(t)
    /\ AtBus(t, "snapshot")
    /\ UNCHANGED <<event_bus, published, busLog>>

\* _notify_subscribers, lines 163-168: the callbacks are collected, the
\* lock released
NotifySnapshot(t) ==
    /\ busThreads[t].pc = "snapshot"
    /\ busThreads' =
           [busThreads EXCEPT
               ![t].pc = "dispatch",
               ![t].pending = CallbacksFor(event_bus, busThreads[t].event)]
    /\ busLock' = Released
    /\ UNCHANGED <<event_bus, published, busLog>>

\* _notify_subscribers, lines 172-176: the next callback is called
NotifyCall(t) ==
    /\ busThreads[t].pc = "dispatch" /\ busThreads[t].pending # << >>
    /\ AtBus(t, "callback")
    /\ UNCHANGED <<busLock, event_bus, published, busLog>>

\* the callback that thread t runs calls subscribe or unsubscribe: line
\* 139 or 150, thread t takes the lock
CallbackEnter(t, call) ==
    /\ busThreads[t].pc = "callback" /\ CanAcquire(t)
    /\ busLock' = Acquired(t)
    /\ busThreads' = [busThreads EXCEPT ![t].pc = "callback_body",
                                        ![t].inner = call]
    /\ UNCHANGED <<event_bus, published, busLog>>

\* the body of the call a thread has begun
BusBody(call) ==
    CASE call.op = "subscribe" ->
            subscribe(call.subscriber_id, call.callback, call.flow_types)
      [] call.op = "unsubscribe" -> unsubscribe(call.subscriber_id)
      [] call.op = "get_recent_events" -> get_recent_events(100, None)
      [] call.op = "clear" -> clear

\* the call made by the callback does its work and releases the lock
CallbackBody(t) ==
    /\ busThreads[t].pc = "callback_body"
    /\ BusBody(busThreads[t].inner)
    /\ busLock' = Released
    /\ busThreads' = [busThreads EXCEPT ![t].pc = "callback",
                                        ![t].inner = NoBusCall]

\* the callback that thread t runs returns or raises
NotifyReturn(t) ==
    /\ busThreads[t].pc = "callback"
    /\ busThreads' = [busThreads EXCEPT ![t].pc = "dispatch",
                                        ![t].pending = Tail(@)]
    /\ UNCHANGED <<busLock, event_bus, published, busLog>>

\* publish returns
PublishReturn(t) ==
    /\ busThreads[t].pc = "dispatch" /\ busThreads[t].pending = << >>
    /\ busThreads' = [busThreads EXCEPT ![t] = IdleBusThread]
    /\ busLog' = BusOp("publish", << >>, << >>)
    /\ UNCHANGED <<busLock, event_bus, published>>

\* subscribe, unsubscribe, get_recent_events or clear: thread t takes the
\* lock (lines 139, 150, 183, 225)
CallEnter(t, call) ==
    /\ busThreads[t].pc = "idle" /\ CanAcquire(t)
    /\ busLock' = Acquired(t)
    /\ busThreads' = [busThreads EXCEPT ![t].pc = "body", ![t].call = call]
    /\ UNCHANGED <<event_bus, published, busLog>>

\* the call does its work, releases the lock and returns
CallBody(t) ==
    /\ busThreads[t].pc = "body"
    /\ BusBody(busThreads[t].call)
    /\ busLock' = Released
    /\ busThreads' = [busThreads EXCEPT ![t] = IdleBusThread]

\* ------------------------------------------------- event persistence
\* (src/mcp_server/xenocomm_mcp/analytics.py, class EventPersistence, under
\* its lock; the files written are kept in the order of their names
\* flows_<timestamp>_<file_count>, each as the list of the events in it;
\* the length of the content written for an event is one unit, and the
\* writes to the file system succeed)
EventPersistence(max_file_size, buffer_size) ==
    [max_file_size |-> max_file_size, buffer_size |-> buffer_size,
     buffer |-> << >>, files |-> << >>, current_file |-> 0,
     current_size |-> 0, file_count |-> 0]

\* EventPersistence._rotate_if_needed; current_file = 0 stands for None
rotate_if_needed(p) ==
    IF p.current_file # 0 /\ p.current_size >= p.max_file_size
    THEN [p EXCEPT !.file_count = @ + 1, !.current_file = 0,
                   !.current_size = 0]
    ELSE p

\* _write_buffer without "self._buffer = []"
write_buffer_keeps_buffer(p) ==
    IF p.buffer = << >> THEN p
    ELSE LET r == rotate_if_needed(p)
             f == IF r.current_file = 0 THEN Len(r.files) + 1
                  ELSE r.current_file
             files == IF r.current_file = 0 THEN Append(r.files, << >>)
                      ELSE r.files
         IN [r EXCEPT !.current_file = f,
                      !.files = [files EXCEPT ![f] = @ \o r.buffer],
                      !.current_size = @ + Len(r.buffer)]

\* EventPersistence._write_buffer
write_buffer(p) ==
    IF p.buffer = << >> THEN p
    ELSE LET r == rotate_if_needed(p)
             f == IF r.current_file = 0 THEN Len(r.files) + 1
                  ELSE r.current_file
             files == IF r.current_file = 0 THEN Append(r.files, << >>)
                      ELSE r.files
         IN [r EXCEPT !.current_file = f,
                      !.buffer = << >>,
                      !.files = [files EXCEPT ![f] = @ \o r.buffer],
                      !.current_size = @ + Len(r.buffer)]

\* EventPersistence.write_event
write_event(p, event) ==
    LET q == [p EXCEPT !.buffer = Append(@, event)]
    IN IF Len(q.buffer) >= q.buffer_size THEN write_buffer(q) ELSE q

\* EventPersistence.flush
flush(p) == write_buffer(p)

\* ------------------------------------------------- observation manager
\* (analytics.py, class EnhancedObservationManager with persist_to set:
\* write_event is subscribed to the bus as "persistence", the handler of
\* the alerting system as "alerting")
ManagerOp(op) == [op |-> op]

ManagerSubscribers ==
    <<[subscriber_id |-> "persistence", callback |-> "write_event"],
      [subscriber_id |-> "alerting", callback |-> "on_event"]>>

ManagerInit ==
    /\ persistence \in
           {EventPersistence(max_file_size, buffer_size) :
               max_file_size \in 1..MaxFileSize, buffer_size \in 0..MaxBuffer}
    /\ handed = << >>
    /\ alerting = [alerts |-> << >>, alert_count |-> 0]
    /\ snapshots = << >>
    /\ mgrLog = ManagerOp("init")

\* the persistence after the callbacks notified of event have run
Persisted(p, event, notified) ==
    IF \E i \in DOMAIN notified : notified[i].callback = "write_event"
    THEN write_event(p, event) ELSE p

\* AlertingSystem._emit_alert with a fresh alert id (_gen_id): the list
\* that has grown beyond MaxAlerts alerts is cut to its last KeptAlerts
emit_alert(a) ==
    LET alert_id == a.alert_count + 1
        alerts == Append(a.alerts, alert_id)
    IN [alert_count |-> alert_id,
        alerts |-> IF Len(alerts) > MaxAlerts
                   THEN SubSeq(alerts, Len(alerts) - KeptAlerts + 1, Len(alerts))
                   ELSE alerts]

\* AlertingSystem._on_event for an event for which fired of the rules
\* return an alert
RECURSIVE on_event(_, _)
on_event(a, fired) ==
    IF fired = 0 THEN a ELSE on_event(emit_alert(a), fired - 1)

\* the alerting system after the callbacks notified of event have run
Alerted(a, fired, notified) ==
    IF \E i \in DOMAIN notified : notified[i].callback = "on_event"
    THEN on_event(a, fired) ELSE a

\* an event is published on the bus of the manager: the callbacks
\* subscribed are notified, write_event and the handler of the alerting
\* system among them; stop flushes the persistence after that
ManagerPublish(op, flow_type, fired, then_flush) ==
    LET event == FlowEvent(Len(published) + 1, flow_type)
        notified == notify_subscribers(event_bus, event, {}).called
        p == Persisted(persistence, event, notified)
    IN /\ publish(event, {})
       /\ persistence' = IF then_flush THEN flush(p) ELSE p
       /\ handed' = IF p = persistence THEN handed ELSE Append(handed, event)
       /\ alerting' = Alerted(alerting, fired, notified)
       /\ mgrLog' = ManagerOp(op)
       /\ UNCHANGED snapshots

\* EnhancedObservationManager.stop: the event observation_stopped, for
\* which no default rule returns an alert, is published, then the
\* persistence flushed
stop == ManagerPublish("stop", "system", 0, TRUE)

\* EventPersistence.flush called on the persistence of the manager
ManagerFlush ==
    /\ persistence' = flush(persistence)
    /\ mgrLog' = ManagerOp("flush")
    /\ UNCHANGED <<handed, alerting, snapshots, event_bus, published, busLog>>

\* ObservationManager._take_snapshot, called by the snapshot loop: the
\* snapshot holds figures of get_stats, of which the model keeps the number
\* of events in the ring
take_snapshot ==
    /\ snapshots' = DequeAppend(snapshots,
                                [total_events |-> Len(event_bus.events)],
                                MaxSnapshots)
    /\ mgrLog' = ManagerOp("take_snapshot")
    /\ UNCHANGED <<persistence, handed, alerting, event_bus, published, busLog>>

\* the manager as the other specifications keep it
ManagerIdle ==
    /\ ManagerInit
    /\ persistence = EventPersistence(MaxFileSize, MaxBuffer)

\* ------------------------------------------------- rate limiter
\* (src/bindings/python/xenocomm/rate_limiter.py: the calls of acquire(1) by
\* several threads, statement by statement; time.time() is counted in
\* ticks and does not run backwards, refill_rate is in tokens per tick)
LimiterThreads == {"t1", "t2"}

\* RateLimiter.__init__; owner is the thread that holds RateLimiter.lock
RateLimiter(capacity, refill_rate) ==
    [capacity |-> capacity, refill_rate |-> refill_rate, tokens |-> capacity,
     last_refill |-> 0, owner |-> None,
     metrics |-> [acquired |-> 0, denied |-> 0]]

\* the calls that have returned True and False, and whether a refill has
\* added a token
LimiterLog(granted, refused, refilled) ==
    [granted |-> granted, refused |-> refused, refilled |-> refilled]

LimiterInit ==
    /\ limiter \in {RateLimiter(capacity, refill_rate) :
                       capacity \in 0..MaxCapacity, refill_rate \in {0, 1}}
    /\ limThreads = [t \in LimiterThreads |-> "idle"]
    /\ limNow = 0
    /\ limLog = LimiterLog(0, 0, FALSE)

LimiterAt(t, pc) == limThreads' = [limThreads EXCEPT ![t] = pc]

\* time passes
LimiterTick ==
    /\ limNow < MaxLimiterTime
    /\ limNow' = limNow + 1
    /\ UNCHANGED <<limiter, limThreads, limLog>>

\* acquire without "with self.lock:"
AcquireEnter_without_lock(t) ==
    /\ limThreads[t] = "idle"
    /\ LimiterAt(t, "refill")
    /\ UNCHANGED <<limiter, limNow, limLog>>

\* acquire, line 36: thread t takes the lock
AcquireEnter(t) ==
    /\ limThreads[t] = "idle"
    /\ limiter.owner \in {None, t}
    /\ limiter' = [limiter EXCEPT !.owner = t]
    /\ LimiterAt(t, "refill")
    /\ UNCHANGED <<limNow, limLog>>

\* _refill
AcquireRefill(t) ==
    /\ limThreads[t] = "refill"
    /\ LET new_tokens == (limNow - limiter.last_refill) * limiter.refill_rate
       IN /\ limiter' = [limiter EXCEPT
                            !.tokens = Min(limiter.capacity, @ + new_tokens),
                            !.last_refill = limNow]
          /\ limLog' = [limLog EXCEPT
                           !.refilled = @ \/ limiter'.tokens > limiter.tokens]
    /\ LimiterAt(t, "check")
    /\ UNCHANGED limNow

\* acquire, line 38: "if self.tokens >= tokens"
AcquireCheck(t) ==
    /\ limThreads[t] = "check"
    /\ LimiterAt(t, IF limiter.tokens >= 1 THEN "take" ELSE "deny")
    /\ UNCHANGED <<limiter, limNow, limLog>>

\* acquire, lines 39-41: the token is taken and counted, the lock released,
\* True returned
AcquireTake(t) ==
    /\ limThreads[t] = "take"
    /\ limiter' = [limiter EXCEPT !.tokens = @ - 1,
                                  !.metrics.acquired = @ + 1,
                                  !.owner = None]
    /\ limLog' = [limLog EXCEPT !.granted = @ + 1]
    /\ LimiterAt(t, "idle")
    /\ UNCHANGED limNow

\* acquire, lines 42-43: the call is counted as denied, the lock released,
\* False returned
AcquireDeny(t) ==
    /\ limThreads[t] = "deny"
    /\ limiter' = [limiter EXCEPT !.metrics.denied = @ + 1, !.owner = None]
    /\ limLog' = [limLog EXCEPT !.refused = @ + 1]
    /\ LimiterAt(t, "idle")
    /\ UNCHANGED limNow

\* the rate limiter as the other specifications keep it
LimiterIdle ==
    /\ LimiterInit
    /\ limiter = RateLimiter(MaxCapacity, 0)

\* ------------------------------------------------- cache manager
\* (src/bindings/python/xenocomm/cache_manager.py; every method runs under
\* CacheManager.lock, so a call is one step; time.time() is counted in
\* ticks, a ttl in ticks too; ttl = 0 stands for None as well: both are
\* falsy in "if ttl:")
CacheKeys == {"foo", "bar"}

CacheValues == {"v1", "v2"}

\* a dict without the key
Without(dict, key) == [k \in DOMAIN dict \ {key} |-> dict[k]]

\* a dict after dict[key] = value
With(dict, key, value) ==
    [k \in DOMAIN dict \cup {key} |-> IF k = key THEN value ELSE dict[k]]

\* CacheManager.__init__
CacheManager ==
    [cache |-> << >>, ttls |-> << >>, metrics |-> [hits |-> 0, misses |-> 0]]

\* the record of a call: what it returned, and the values stored without a
\* ttl that no call has invalidated or overwritten since (history only)
CacheOp(op, key, ret, kept) == [op |-> op, key |-> key, ret |-> ret, kept |-> kept]

CacheInit ==
    /\ cache_manager = CacheManager
    /\ cacheNow = 0
    /\ cacheLog = CacheOp("init", None, None, << >>)

\* time passes
CacheTick ==
    /\ cacheNow < MaxCacheTime
    /\ cacheNow' = cacheNow + 1
    /\ UNCHANGED <<cache_manager, cacheLog>>

\* CacheManager._invalidate
invalidate_key(cm, key) ==
    [cm EXCEPT !.cache = Without(@, key), !.ttls = Without(@, key)]

\* CacheManager.get
get(key) ==
    LET cm == cache_manager
        expired == key \in DOMAIN cm.ttls /\ cacheNow > cm.ttls[key]
        hit == key \in DOMAIN cm.cache /\ ~expired
    IN /\ cache_manager' =
              IF key \notin DOMAIN cm.cache
              THEN [cm EXCEPT !.metrics.misses = @ + 1]
              ELSE IF expired
              THEN [invalidate_key(cm, key) EXCEPT !.metrics.misses = @ + 1]
              ELSE [cm EXCEPT !.metrics.hits = @ + 1]
       /\ cacheLog' = CacheOp("get", key,
                              IF hit THEN cm.cache[key] ELSE None,
                              cacheLog.kept)
       /\ UNCHANGED cacheNow

\* CacheManager.set
set(key, value, ttl) ==
    /\ cache_manager' =
           [cache_manager EXCEPT
               !.cache = With(@, key, value),
               !.ttls = IF ttl # 0 THEN With(@, key, cacheNow + ttl) ELSE @]
    /\ cacheLog' = CacheOp("set", key, None,
                           IF ttl # 0 THEN Without(cacheLog.kept, key)
                           ELSE With(cacheLog.kept, key, value))
    /\ UNCHANGED cacheNow

\* CacheManager.invalidate
invalidate(key) ==
    /\ cache_manager' = invalidate_key(cache_manager, key)
    /\ cacheLog' = CacheOp("invalidate", key, None, Without(cacheLog.kept, key))
    /\ UNCHANGED cacheNow

\* CacheManager.invalidate_all
invalidate_all ==
    /\ cache_manager' = [cache_manager EXCEPT !.cache = << >>, !.ttls = << >>]
    /\ cacheLog' = CacheOp("invalidate_all", None, None, << >>)
    /\ UNCHANGED cacheNow

\* CacheManager.cleanup_expired
cleanup_expired ==
    LET cm == cache_manager
        expired == {k \in DOMAIN cm.ttls : cacheNow > cm.ttls[k]}
    IN /\ cache_manager' =
              [cm EXCEPT !.cache = [k \in DOMAIN @ \ expired |-> @[k]],
                         !.ttls = [k \in DOMAIN @ \ expired |-> @[k]]]
       /\ cacheLog' = CacheOp("cleanup_expired", None, None, cacheLog.kept)
       /\ UNCHANGED cacheNow

\* the parts of the server added last, just constructed
ExtraIdle == BusThreadsInit /\ ManagerIdle /\ LimiterIdle /\ CacheInit

\* the server as the other specifications keep it: no tool called, the
\* bus just constructed with the largest capacity of the model
SrvIdle ==
    /\ ToolInit /\ BusInit /\ event_bus.max_history = MaxHistory
    /\ ExtraIdle

\* the orchestrator as the specifications of the engines keep it: just
\* constructed, with the default configuration, and never called
OrchIdle == OrchestratorInit /\ orchConfig.require_alignment_for_negotiation

\* the parts around the engines, just constructed and never called
RestIdle == OrchIdle /\ ThreadsInit /\ WorkflowInit /\ SrvIdle

\* ------------------------------------------------- specifications
\* one call of a proposal/counter/finalize operation, with params from P and
\* reasons from R, on a session that has taken fewer than cap counter-proposals
ProtocolStep(P, R, cap) ==
    \/ \E i \in Initiators, r \in Responders, p \in P, t \in TimeoutChoices :
          initiate_session(i, r, p, t)
    \/ \E sid \in SessionIds, a \in Agents : receive_proposal(sid, a)
    \/ \E sid \in SessionIds, a \in Agents : respond_accept(sid, a)
    \/ \E sid \in SessionIds, a \in Agents, p \in P :
          hist[sid].counters < cap /\ respond_counter(sid, a, p)
    \/ \E sid \in SessionIds, a \in Agents, r \in R : respond_reject(sid, a, r)
    \/ \E sid \in SessionIds, a \in Agents : accept_counter(sid, a)
    \/ \E sid \in SessionIds, a \in Agents : finalize_session(sid, a)
    \/ \E sid \in SessionIds, a \in Agents, r \in R : close_session(sid, a, r)
    \/ \E sid \in SessionIds, a \in Agents, p \in P :
          hist[sid].counters < cap /\ submit_counter_proposal(sid, a, p)

\* one step of the clock or one call of a timeout operation
TimeoutStep ==
    \/ Tick
    \/ \E sid \in SessionIds : check_timeout(sid)
    \/ check_all_timeouts
    \/ \E sid \in SessionIds, a \in Agents : extend_timeout(sid, a, 0)

\* the emergence engine as the negotiation specifications keep it: just
\* constructed, with the default switches, and never called
EmIdle ==
    /\ BreakerInit
    /\ EmergenceInit
    /\ emConfig.adaptive_ramp_enabled /\ emConfig.track_outcomes
    /\ workload = "varied"

NegInit == Init /\ config.timeout_policy = "fail" /\ EmIdle /\ RestIdle

NegNext ==
    /\ ProtocolStep(ParamChoices, Reasons, MaxCounters)
    /\ UNCHANGED <<emVars, restVars>>

NegSpec == NegInit /\ [][NegNext]_negVars

TimeoutInit ==
    /\ Init /\ config.require_validation /\ config.track_history
    /\ EmIdle /\ RestIdle

TimeoutNext ==
    /\ \/ TimeoutStep
       \/ ProtocolStep({DefaultParams}, {None}, MaxTimedCounters)
    /\ UNCHANGED <<emVars, restVars>>

TimeoutSpec == TimeoutInit /\ [][TimeoutNext]_negVars

\* the negotiation engine as the emergence specifications keep it: just
\* constructed, with the default configuration, and never called
NegIdle ==
    /\ Init
    /\ config.timeout_policy = "fail"
    /\ config.require_validation /\ config.track_history

BreakerOnlyInit == NegIdle /\ EmIdle /\ RestIdle

BreakerNext ==
    BreakerStep /\ UNCHANGED <<negVars, engVars, workload, restVars>>

BreakerSpec == BreakerOnlyInit /\ [][BreakerNext]_vars

\* the metrics a caller reports: all well, a success rate of 0.7 or 0.5,
\* a latency above max_latency_ms, an error count above the threshold
Good == PerformanceMetrics(100, 100, 0)
Dip == PerformanceMetrics(70, 100, 0)
Low == PerformanceMetrics(50, 100, 0)
Slow == PerformanceMetrics(100, 6000, 0)
Faulty == PerformanceMetrics(100, 100, 11)

\* RollbackReason values a caller passes to rollback
ManualReasons == {"manual", "alignment_threshold"}

\* one call of a variant operation on a variant of V, with metrics from M
\* (at most cap of them per variant), initial percentages from P, force
\* from F and reasons from R
VariantCall(V, M, P, F, R, cap) ==
    \/ Len(variants) + 1 \in V /\ propose_variant
    \/ \E vid \in V : start_testing(vid)
    \/ \E vid \in V, p \in P : start_canary(vid, p)
    \/ \E vid \in V, force \in F :
          /\ HasVariant(vid) =>
                (force \/ variants[vid].pause_count < MaxPauses)
          /\ ramp_canary(vid, force)
    \/ \E vid \in V : resume_variant(vid)
    \/ \E vid \in V, m \in M :
          /\ HasVariant(vid) => Len(variants[vid].metrics_history) < cap
          /\ track_performance(vid, m)
    \/ \E vid \in V, r \in R :
          /\ HasVariant(vid) => variants[vid].rollback_count < MaxRollbacks
          /\ rollback(vid, r)

\* d seconds pass between two calls
EmAdvance(d) ==
    /\ Advance(d)
    /\ emLog' = EmOp("advance", 0, None, None)
    /\ UNCHANGED <<emConfig, variants, circuit_breakers, rollback_points,
                   current_active_variant, outcomes, experiments, statusPath>>

LifecycleInit ==
    /\ NegIdle /\ BreakerInit /\ EmergenceInit /\ workload = "varied"
    /\ RestIdle

LifecycleNext ==
    /\ VariantCall({1, 2}, {Low}, {8}, BOOLEAN, ManualReasons,
                   LifecycleMetrics)
    /\ UNCHANGED <<negVars, cbVars, workload, restVars>>

LifecycleSpec == LifecycleInit /\ [][LifecycleNext]_vars

PerformanceInit ==
    /\ NegIdle /\ BreakerInit /\ EmergenceInit
    /\ emConfig.adaptive_ramp_enabled /\ emConfig.track_outcomes
    /\ RestIdle

PerformanceNext ==
    /\ \/ /\ workload = "varied"
          /\ VariantCall({1}, {Good, Dip, Slow, Faulty}, {0}, BOOLEAN,
                         {"manual"}, MaxMetrics)
          /\ UNCHANGED clock
       \/ /\ workload = "long"
          /\ VariantCall({1}, {Good, Low}, {0}, {}, {}, MaxLongMetrics)
          /\ UNCHANGED clock
       \/ get_variant_status(1) /\ UNCHANGED clock
       \/ workload = "long" /\ EmAdvance(reset_timeout_seconds)
    /\ UNCHANGED <<negVars, breaker, breakerLog, workload, restVars>>

PerformanceSpec == PerformanceInit /\ [][PerformanceNext]_vars

\* the success rates reported to an experiment
ExperimentRates == {80, 82, 95}

\* the experiments the model follows
ExperimentIds == {1}

\* one call of an A/B operation between the variants of V
ExperimentCall(V) ==
    \/ Len(variants) + 1 \in V /\ propose_variant
    \/ \E c \in V, t \in V :
          Len(experiments) + 1 \in ExperimentIds /\ start_experiment(c, t)
    \/ \E eid \in ExperimentIds, vid \in V, rate \in ExperimentRates :
          /\ HasExperiment(eid) =>
                Len(IF vid = experiments[eid].control_variant_id
                    THEN experiments[eid].control_metrics
                    ELSE experiments[eid].treatment_metrics) < MaxSamples
          /\ record_experiment_metrics(eid, vid, rate)
    \/ \E eid \in ExperimentIds, winner \in V \cup {0} :
          end_experiment(eid, winner)

ExperimentInit ==
    /\ NegIdle /\ BreakerInit /\ EmergenceInit
    /\ emConfig.adaptive_ramp_enabled /\ emConfig.track_outcomes
    /\ workload = "varied"
    /\ RestIdle

ExperimentNext ==
    /\ \/ ExperimentCall({1, 2}) /\ UNCHANGED clock
       \/ EmAdvance(reset_timeout_seconds)
    /\ UNCHANGED <<negVars, breaker, breakerLog, workload, restVars>>

ExperimentSpec == ExperimentInit /\ [][ExperimentNext]_vars

\* the agent the others are compared with
RefAgent ==
    AgentContext("a1", KnowledgeDomains, <<"research">>, [x |-> "u"],
                 Assumptions, [k |-> 1], {"msgpack"})

\* the contexts agent a2 may register with
OtherAgents ==
    {AgentContext("a2", d, g, t, a, c, caps) :
        d \in SUBSET KnowledgeDomains, g \in GoalLists, t \in Terminologies,
        a \in SUBSET Assumptions, c \in ContextParams,
        caps \in {{}, {"msgpack"}}}

\* required_domains as the callers pass it: None or one domain
RequiredDomains == {{}, {"python"}}

\* one registration of an agent that is not yet registered
RegisterCall(C) ==
    \E context \in C :
        /\ context.agent_id \notin DOMAIN agent_registry
        /\ register_agent(context)
        /\ UNCHANGED negVars

\* one call of initiate_collaboration, with the default params; a call that
\* requires a domain is made for agents that declare domains
CollaborateCall ==
    \E a \in AgentIds, b \in AgentIds, req \in RequiredDomains :
        /\ Len(collaborations) < MaxCollaborations
        /\ req # {} =>
               \A x \in {a, b} \cap DOMAIN agent_registry :
                   agent_registry[x].knowledge_domains # {}
        /\ initiate_collaboration(a, b, req, DefaultParams)

AlignInit ==
    /\ NegIdle /\ EmIdle /\ OrchestratorInit /\ ThreadsInit /\ WorkflowInit
    /\ SrvIdle

AlignNext ==
    /\ \/ RegisterCall({RefAgent} \cup OtherAgents)
       \/ CollaborateCall
    /\ UNCHANGED <<emVars, threads, wfVars, srvVars>>

AlignSpec == AlignInit /\ [][AlignNext]_vars

\* the contexts the agents of the hook runs register with: a2 like a1, or
\* declaring nothing
HookAgents ==
    {RefAgent,
     [RefAgent EXCEPT !.agent_id = "a2"],
     AgentContext("a2", {}, << >>, << >>, {}, << >>, {})}

\* the callbacks registered, over all events
HookCount ==
    Len(hooks["on_alignment_complete"]) + Len(hooks["on_negotiation_complete"])
        + Len(hooks["on_session_ready"]) + Len(hooks["on_evolution_triggered"])

\* one call of add_hook, for an event of the orchestrator or another name
HookCall ==
    \E event \in HookEvents \cup {"on_other"}, callback \in HookKinds :
        /\ HookCount < MaxHooks
        /\ add_hook(event, callback)
        /\ UNCHANGED negVars

\* one call of propose_protocol_evolution
EvolveCall ==
    \E session_id \in 1..MaxCollaborations :
        /\ Len(variants) < MaxProposals
        /\ propose_protocol_evolution(session_id)
        /\ UNCHANGED <<negVars, cbVars, workload>>

HookInit ==
    /\ NegIdle /\ EmIdle /\ OrchestratorInit /\ ThreadsInit /\ WorkflowInit
    /\ SrvIdle

HookNext ==
    /\ \/ RegisterCall(HookAgents) /\ UNCHANGED emVars
       \/ HookCall /\ UNCHANGED emVars
       \/ CollaborateCall /\ UNCHANGED emVars
       \/ EvolveCall
    /\ UNCHANGED <<threads, wfVars, srvVars>>

HookSpec == HookInit /\ [][HookNext]_vars

\* a session is initiated, the clock advances, or a thread that calls
\* check_all_timeouts executes its next statement
ThreadInit ==
    /\ Init /\ config.require_validation /\ config.track_history
    /\ EmIdle /\ RestIdle

ThreadNext ==
    /\ \/ \E i \in Initiators, r \in Responders :
              initiate_session(i, r, DefaultParams, 0) /\ UNCHANGED threads
       \/ Tick /\ UNCHANGED threads
       \/ \E t \in Threads : SweepStep(t)
    /\ UNCHANGED <<emVars, orchVars, wfVars, srvVars>>

ThreadSpec == ThreadInit /\ [][ThreadNext]_vars

\* the error types and the affected agents error recovery is started with
ErrorTypes == {"timeout", "alignment_failure", "protocol_mismatch", "other"}

AffectedAgents == {<< >>, <<"a1">>}

\* the executions the callers start
Startable ==
    {WorkflowExecution(w, WorkflowContext(None, << >>)) :
        w \in Workflows \ {"error_recovery"}}
    \cup {WorkflowExecution("error_recovery", WorkflowContext(t, a)) :
            t \in ErrorTypes, a \in AffectedAgents}

\* no handler other than that of execution eid is running
NoneBusyBut(eid) ==
    \A x \in DOMAIN executions : x # eid => executions[x].calls = 0

\* a call of an engine from outside the workflows
Outside(op) == wfLog' = WfOp(op, 0, None, None) /\ UNCHANGED executions

\* execute_step on the execution runs the step
AtStep(e, step_id) ==
    /\ e.status = "running"
    /\ e.current_step_index < Len(e.steps)
    /\ CurrentStep(e).step_id = step_id

\* one call of a workflow
WorkflowCall ==
    \/ \E x \in Startable :
          /\ Len(executions) < MaxExecutions
          /\ NoneBusyBut(0)
          /\ start(x.workflow_name, x.context)
          /\ UNCHANGED <<negVars, engVars>>
    \/ \E eid \in 1..MaxExecutions :
          /\ NoneBusyBut(eid)
          /\ eid \in DOMAIN executions
          /\ AtStep(executions[eid], "propose") =>
                 Len(variants) < MaxProposals
          /\ execute_step(eid)

\* what the callers do between the steps of the workflows: they report the
\* metrics of a canary, ramp it, roll a variant back, open a negotiation
\* session, and time passes until the session has expired
OutsideCall ==
    /\ NoneBusyBut(0)
    /\ \/ \E vid \in VariantsWith("canary"), m \in {Good, Low} :
             /\ Len(variants[vid].metrics_history) <= MaxReports
             /\ track_performance(vid, m)
             /\ Outside("track_performance")
             /\ UNCHANGED negVars
       \/ \E vid \in VariantsWith("canary") :
             /\ ramp_canary(vid, FALSE)
             /\ Outside("ramp_canary")
             /\ UNCHANGED negVars
       \/ \E vid \in VariantsWith("testing") :
             /\ rollback(vid, "manual")
             /\ Outside("rollback")
             /\ UNCHANGED negVars
       \/ \E i \in Initiators, r \in Responders :
             /\ initiate_session(i, r, DefaultParams, 0)
             /\ Outside("initiate_session")
             /\ UNCHANGED engVars
       \/ /\ now <= config.default_timeout_ms
          /\ Tick /\ Outside("tick") /\ UNCHANGED engVars

WorkflowsInit ==
    /\ NegIdle /\ EmIdle /\ RestIdle

WorkflowNext ==
    /\ WorkflowCall \/ OutsideCall
    /\ UNCHANGED <<cbVars, workload, orchVars, threads, srvVars>>

WorkflowSpec == WorkflowsInit /\ [][WorkflowNext]_vars

\* agents register, and the onboarding of a new agent is started and run
\* once a1 and a2 are registered (the context of the new agent and the ids
\* of the existing ones are not read before _step_register raises)
OnboardCall ==
    \/ /\ Len(executions) < MaxExecutions
       /\ {"a1", "a2"} \subseteq DOMAIN agent_registry
       /\ start("multi_agent_onboarding", WorkflowContext(None, << >>))
       /\ UNCHANGED <<negVars, engVars>>
    \/ \E eid \in DOMAIN executions : execute_step(eid)

OnboardNext ==
    \/ /\ RegisterCall({RefAgent} \cup OtherAgents)
       /\ UNCHANGED <<emVars, threads, wfVars, srvVars>>
    \/ /\ OnboardCall
       /\ UNCHANGED <<cbVars, workload, orchVars, threads, srvVars>>

OnboardSpec == WorkflowsInit /\ [][OnboardNext]_vars

\* the dicts of params and the responses the callers of the tools pass
ToolDicts == { {}, {<<"compression", "lz4">>} }

Responses == {"accept", "counter", "reject", "maybe"}

\* one call of a negotiation tool
ToolCall ==
    /\ toolLog.calls < MaxToolCalls
    /\ \/ \E i \in Initiators, r \in Responders, d \in ToolDicts :
              initiate_negotiation(i, r, d)
       \/ \E sid \in SessionIds, a \in Agents, response \in Responses,
             d \in ToolDicts :
              respond_to_negotiation(sid, a, response, d, None)
       \/ \E sid \in SessionIds, a \in Agents :
              accept_counter_proposal(sid, a)
       \/ \E sid \in SessionIds, a \in Agents :
              finalize_negotiation(sid, a)

\* the responder's side calls receive_proposal on the engine itself
ReceiveCall ==
    /\ \E sid \in SessionIds, a \in Agents : receive_proposal(sid, a)
    /\ UNCHANGED toolLog

ToolsInit == NegIdle /\ EmIdle /\ RestIdle

ToolNext ==
    /\ ToolCall \/ ReceiveCall
    /\ UNCHANGED <<emVars, orchVars, threads, wfVars, event_bus, published,
                   busLog, extraVars>>

ToolSpec == ToolsInit /\ [][ToolNext]_vars

\* the flow types a subscriber names, and the counts get_recent_events is
\* called with
FlowTypeLists == {<< >>, <<"negotiation">>, <<"negotiation", "system">>}

RecentCounts == -1 .. MaxPublished

\* the entries of the subscriber tables
Subscriptions ==
    Len(event_bus.subscribers) + Len(event_bus.type_subscribers["negotiation"])
        + Len(event_bus.type_subscribers["system"])

\* one call of the event bus
BusCall ==
    \/ /\ Len(published) < MaxPublished
       /\ \E ft \in FlowTypes, failing \in SUBSET BusCallbacks :
              publish(FlowEvent(Len(published) + 1, ft), failing)
    \/ \E id \in SubscriberIds, cb \in BusCallbacks, fts \in FlowTypeLists :
          /\ Subscriptions + 1 + Len(fts) <= MaxSubscriptions
          /\ subscribe(id, cb, fts)
    \/ \E id \in SubscriberIds : unsubscribe(id)
    \/ \E count \in RecentCounts, ft \in FlowTypes \cup {None} :
          get_recent_events(count, ft)
    \/ clear

BusOnlyInit ==
    /\ NegIdle /\ EmIdle /\ OrchIdle /\ ThreadsInit /\ WorkflowInit
    /\ ToolInit /\ BusInit /\ ExtraIdle

BusNext ==
    /\ BusCall
    /\ UNCHANGED <<negVars, emVars, orchVars, threads, wfVars, toolLog,
                   extraVars>>

BusSpec == BusOnlyInit /\ [][BusNext]_vars

\* the calls the threads and the callbacks make besides publish
ThreadCalls ==
    {BusCallOf("subscribe", "s1", cb, fts) :
        cb \in BusCallbacks, fts \in {<< >>, <<"system">>}}
    \cup {BusCallOf("unsubscribe", "s1", None, << >>),
          BusCallOf("get_recent_events", None, None, << >>),
          BusCallOf("clear", None, None, << >>)}

CallbackCalls == {c \in ThreadCalls : c.op \in {"subscribe", "unsubscribe"}}

\* the next statement of thread t
BusThreadStep(t) ==
    \/ /\ Len(published) < MaxThreadEvents
       /\ \E ft \in FlowTypes : PublishEnter(t, ft)
    \/ PublishAppend(t)
    \/ NotifyEnter(t)
    \/ NotifySnapshot(t)
    \/ NotifyCall(t)
    \/ \E call \in CallbackCalls :
          /\ call.op = "subscribe" =>
                 Subscriptions + 1 + Len(call.flow_types) <= MaxSubscriptions
          /\ CallbackEnter(t, call)
    \/ CallbackBody(t)
    \/ NotifyReturn(t)
    \/ PublishReturn(t)
    \/ \E call \in ThreadCalls :
          /\ call.op = "subscribe" =>
                 Subscriptions + 1 + Len(call.flow_types) <= MaxSubscriptions
          /\ CallEnter(t, call)
    \/ CallBody(t)

BusThreadInit ==
    /\ NegIdle /\ EmIdle /\ OrchIdle /\ ThreadsInit /\ WorkflowInit
    /\ SrvIdle

BusThreadNext ==
    /\ \E t \in BusThreads : BusThreadStep(t)
    /\ UNCHANGED <<negVars, emVars, orchVars, threads, wfVars, toolLog,
                   sinkVars, limVars, cacheVars>>

BusThreadSpec == BusThreadInit /\ [][BusThreadNext]_vars

\* one call of the manager or of a sensor that publishes on its bus
ManagerCall ==
    \/ /\ Len(published) < MaxSinkEvents
       /\ \E ft \in FlowTypes, fired \in 0..2 :
              ManagerPublish("publish", ft, fired, FALSE)
    \/ Len(published) < MaxSinkEvents /\ stop
    \/ ManagerFlush
    \/ take_snapshot

ManagerOnlyInit ==
    /\ NegIdle /\ EmIdle /\ OrchIdle /\ ThreadsInit /\ WorkflowInit
    /\ ToolInit /\ BusThreadsInit /\ LimiterIdle /\ CacheInit
    /\ event_bus = [EventBus(MaxHistory) EXCEPT !.subscribers = ManagerSubscribers]
    /\ published = << >>
    /\ busLog = BusOp("init", << >>, << >>)
    /\ ManagerInit

ManagerNext ==
    /\ ManagerCall
    /\ UNCHANGED <<negVars, emVars, orchVars, threads, wfVars, toolLog,
                   lockVars, limVars, cacheVars>>

ManagerSpec == ManagerOnlyInit /\ [][ManagerNext]_vars

\* the calls of acquire begun so far
AcquiresBegun ==
    limLog.granted + limLog.refused
        + Cardinality({t \in LimiterThreads : limThreads[t] # "idle"})

\* the next statement of thread t in acquire
LimiterStep(t) ==
    \/ AcquiresBegun < MaxAcquires /\ AcquireEnter(t)
    \/ AcquireRefill(t)
    \/ AcquireCheck(t)
    \/ AcquireTake(t)
    \/ AcquireDeny(t)

LimiterOnlyInit ==
    /\ NegIdle /\ EmIdle /\ OrchIdle /\ ThreadsInit /\ WorkflowInit
    /\ ToolInit /\ BusInit /\ event_bus.max_history = MaxHistory
    /\ BusThreadsInit /\ ManagerIdle /\ CacheInit
    /\ LimiterInit

LimiterNext ==
    /\ LimiterTick \/ \E t \in LimiterThreads : LimiterStep(t)
    /\ UNCHANGED <<negVars, emVars, orchVars, threads, wfVars, toolLog,
                   event_bus, published, busLog, lockVars, sinkVars,
                   cacheVars>>

LimiterSpec == LimiterOnlyInit /\ [][LimiterNext]_vars

\* one call of evolve_session_protocol
EvolveSessionCall ==
    \E session_id \in 1..MaxCollaborations, vid \in 1..MaxProposals :
        /\ evolve_session_protocol(session_id, vid)
        /\ UNCHANGED <<negVars, cbVars, workload>>

\* one call of report_session_metrics
ReportCall ==
    \E session_id \in 1..MaxCollaborations, m \in {Good, Low} :
        /\ report_session_metrics(session_id, m)
        /\ UNCHANGED <<negVars, cbVars, workload>>

\* the traffic of a variant is reported to the emergence engine
TrafficCall ==
    \E vid \in 1..MaxProposals, m \in {Good, Low} :
        /\ HasVariant(vid)
        /\ Len(variants[vid].metrics_history) < MaxReports
        /\ track_performance(vid, m)
        /\ UNCHANGED <<negVars, cbVars, workload, orchVars>>

EvolutionInit ==
    /\ NegIdle /\ EmIdle /\ OrchestratorInit /\ ThreadsInit /\ WorkflowInit
    /\ SrvIdle

EvolutionNext ==
    /\ \/ RegisterCall(HookAgents) /\ UNCHANGED emVars
       \/ CollaborateCall /\ UNCHANGED emVars
       \/ EvolveCall
       \/ EvolveSessionCall
       \/ ReportCall
       \/ TrafficCall
    /\ UNCHANGED <<threads, wfVars, srvVars>>

EvolutionSpec == EvolutionInit /\ [][EvolutionNext]_vars

\* one call of suspend_session, resume_session or close_session
SessionCall ==
    \E session_id \in 1..MaxCollaborations :
        \/ suspend_session(session_id) /\ UNCHANGED negVars
        \/ resume_session(session_id) /\ UNCHANGED negVars
        \/ orchestrator_close_session(session_id)

SessionInit ==
    /\ NegIdle /\ EmIdle /\ OrchestratorInit /\ ThreadsInit /\ WorkflowInit
    /\ SrvIdle

SessionNext ==
    /\ \/ RegisterCall(HookAgents)
       \/ CollaborateCall
       \/ SessionCall
    /\ UNCHANGED <<emVars, threads, wfVars, srvVars>>

SessionSpec == SessionInit /\ [][SessionNext]_vars

\* one call of the cache manager
CacheCall ==
    \/ \E key \in CacheKeys :
          /\ cache_manager.metrics.hits + cache_manager.metrics.misses < MaxGets
          /\ get(key)
    \/ \E key \in CacheKeys, value \in CacheValues, ttl \in 0..MaxTtl :
          set(key, value, ttl)
    \/ \E key \in CacheKeys : invalidate(key)
    \/ invalidate_all
    \/ cleanup_expired

CacheOnlyInit ==
    /\ NegIdle /\ EmIdle /\ OrchIdle /\ ThreadsInit /\ WorkflowInit
    /\ ToolInit /\ BusInit /\ event_bus.max_history = MaxHistory
    /\ BusThreadsInit /\ ManagerIdle /\ LimiterIdle
    /\ CacheInit

CacheNext ==
    /\ CacheTick \/ CacheCall
    /\ UNCHANGED <<negVars, emVars, orchVars, threads, wfVars, toolLog,
                   event_bus, published, busLog, lockVars, sinkVars, limVars>>

CacheSpec == CacheOnlyInit /\ [][CacheNext]_vars

\* ------------------------------------------------- the claims
\* session sid has been created
Known(sid) == sid \in SessionIds /\ sid <= nextId

\* the place of session sid in the completed-sessions list
ArchivedAt(sid) ==
    {i \in 1..Len(completed) : completed[i].session_id = sid}

\* session sid, in the active map or in the completed-sessions list
SessionOf(sid) ==
    IF HasSession(sid) THEN sessions[sid]
    ELSE completed[CHOOSE i \in ArchivedAt(sid) : TRUE]

\* C1: a session in a terminal state (finalized, failed, timed_out, closed)
\* never changes state again.
C1_TerminalStateIsFinal ==
    [][\A sid \in SessionIds :
          (Known(sid) /\ IsTerminal(SessionOf(sid)))
          => SessionOf(sid)'.state = SessionOf(sid).state]_negVars

\* C2: once a session is in a terminal state, check_timeout and
\* check_all_timeouts do not modify it and do not archive it again.
C2_TimeoutChecksLeaveTerminalSessions ==
    [][\A sid \in SessionIds :
          (/\ Known(sid)
           /\ IsTerminal(SessionOf(sid))
           /\ lastOp'.op \in {"check_timeout", "check_all_timeouts"})
          => /\ SessionOf(sid)' = SessionOf(sid)
             /\ completed' = completed]_negVars

\* the states the transition table lists as the sources of an operation
SourceStates(op) ==
    CASE op = "receive_proposal" -> {"awaiting_response"}
      [] op \in {"respond_accept", "respond_counter", "respond_reject"} ->
            {"proposal_received"}
      [] op = "accept_counter" -> {"awaiting_finalization"}
      [] op = "finalize_session" -> {"awaiting_finalization", "finalizing"}

TableOps ==
    {"receive_proposal", "respond_accept", "respond_counter", "respond_reject",
     "accept_counter", "finalize_session"}

\* C3: an operation of the transition table returns only when the session is
\* in one of the source states the table lists for it.
C3_OnlyFromSourceStates ==
    [][lastOp'.op \in TableOps
       => sessions[lastOp'.sid].state \in SourceStates(lastOp'.op)]_negVars

\* C4: respond_accept, respond_counter and respond_reject return only to the
\* session's responder, accept_counter and finalize_session only to its
\* initiator, close_session only to one of the two; for any other caller the
\* call raises, which changes nothing.
C4_CallerIsAuthorized ==
    LET s == SessionOf(lastOp.sid) IN
    /\ lastOp.op \in {"respond_accept", "respond_counter", "respond_reject"}
       => lastOp.agent = s.responder_id
    /\ lastOp.op \in {"accept_counter", "finalize_session"}
       => lastOp.agent = s.initiator_id
    /\ lastOp.op = "close_session"
       => lastOp.agent \in {s.initiator_id, s.responder_id}

\* the responder has rejected a proposal and the initiator has not
C4_Witness ==
    /\ lastOp.op = "respond_reject"
    /\ lastOp.agent = SessionOf(lastOp.sid).responder_id
    /\ lastOp.agent # SessionOf(lastOp.sid).initiator_id
    /\ SessionOf(lastOp.sid).state = "failed"

\* C5: when finalize_session has returned, final_params is not None and is
\* the last counter-proposal made on the session (which counter_params
\* holds) if one was made, and proposed_params otherwise.
C5_FinalParamsChosen ==
    lastOp.op = "finalize_session"
    => LET s == SessionOf(lastOp.sid)
           last == hist[lastOp.sid].last_counter
       IN /\ s.state = "finalized"
          /\ s.final_params # NoParams
          /\ IF last # NoParams
             THEN s.final_params = last /\ s.final_params = s.counter_params
             ELSE s.final_params = s.proposed_params

\* finalize_session has returned on a session whose counter-proposal differs
\* from the initial proposal
C5_Witness ==
    /\ lastOp.op = "finalize_session"
    /\ hist[lastOp.sid].last_counter # NoParams
    /\ hist[lastOp.sid].last_counter # SessionOf(lastOp.sid).proposed_params
    /\ SessionOf(lastOp.sid).final_params = hist[lastOp.sid].last_counter

\* C6: a session that reaches a terminal state is at that step removed from
\* the active map and appended once to the completed-sessions list, so the
\* active map holds no session in a terminal state.
C6_TerminalSessionsAreArchived ==
    \A sid \in SessionIds :
        (Known(sid) /\ IsTerminal(SessionOf(sid)))
        => ~HasSession(sid) /\ Cardinality(ArchivedAt(sid)) = 1

\* C7: with require_validation no session stores proposed_params or
\* counter_params that validate() rejects.
C7_StoredParamsAreValid ==
    config.require_validation
    => \A sid \in SessionIds :
          Known(sid)
          => /\ validate(SessionOf(sid).proposed_params)
             /\ SessionOf(sid).counter_params # NoParams
                => validate(SessionOf(sid).counter_params)

\* C8: a session in which proposed_params or counter_params name an
\* encryption stronger than none is never finalized with encryption none.
C8_NoEncryptionDowngrade ==
    \A sid \in SessionIds :
        LET s == SessionOf(sid) IN
        (/\ Known(sid)
         /\ s.state = "finalized"
         /\ \/ s.proposed_params.encryption # "none"
            \/ /\ s.counter_params # NoParams
               /\ s.counter_params.encryption # "none")
        => s.final_params.encryption # "none"

\* check_timeout has returned from a call that found session sid expired, not
\* in a terminal state, under the EXTEND policy
ExtendCheck(sid) ==
    /\ config.timeout_policy = "extend"
    /\ lastOp'.op = "check_timeout"
    /\ lastOp'.sid = sid
    /\ HasSession(sid)
    /\ ~IsTerminal(sessions[sid])
    /\ now > sessions[sid].expires_at

\* the session is extended: one more extension, the state as it was
Extended(sid) ==
    /\ HasSession(sid)'
    /\ sessions'[sid].extend_count = sessions[sid].extend_count + 1
    /\ sessions'[sid].state = sessions[sid].state
    /\ completed' = completed

\* C9, as the claim has it: under EXTEND a check_timeout of an expired
\* session that is not terminal either increments extend_count and moves the
\* deadline later by the default timeout, or moves the session to timed_out.
C9_DeadlineMovedByDefault ==
    [][\A sid \in SessionIds :
          ExtendCheck(sid)
          => \/ /\ Extended(sid)
                /\ sessions'[sid].expires_at =
                      sessions[sid].expires_at + config.default_timeout_ms
             \/ SessionOf(sid)'.state = "timed_out"]_negVars

\* C9, amended: under EXTEND a check_timeout of an expired session that is not
\* terminal increments extend_count and sets the deadline to the time of the
\* check plus the default timeout (later than the old deadline plus the
\* default timeout) while extend_count is below auto_extend_count, and
\* otherwise archives the session as timed_out; check_timeout extends a
\* session at most auto_extend_count times.
C9_ExtendThenTimeOut ==
    /\ [][\A sid \in SessionIds :
             ExtendCheck(sid)
             => IF sessions[sid].extend_count < config.auto_extend_count
                THEN /\ Extended(sid)
                     /\ sessions'[sid].expires_at =
                           now + config.default_timeout_ms
                     /\ sessions'[sid].expires_at >
                           sessions[sid].expires_at + config.default_timeout_ms
                     /\ hist'[sid].auto_extends = hist[sid].auto_extends + 1
                ELSE /\ ~HasSession(sid)'
                     /\ SessionOf(sid)'.state = "timed_out"
                     /\ Cardinality(ArchivedAt(sid))' = 1]_negVars
    /\ [](\A sid \in SessionIds :
             hist[sid].auto_extends <= config.auto_extend_count)

\* a session that check_timeout has extended and then, the extensions used
\* up, has timed out
C9_Witness ==
    /\ config.timeout_policy = "extend"
    /\ lastOp.op = "check_timeout"
    /\ Known(lastOp.sid)
    /\ ~HasSession(lastOp.sid)
    /\ SessionOf(lastOp.sid).state = "timed_out"
    /\ hist[lastOp.sid].auto_extends = config.auto_extend_count
    /\ hist[lastOp.sid].auto_extends >= 1

\* C10: a session takes at most max_rounds counter-proposals.
C10_CounterProposalsBounded ==
    \A sid \in SessionIds : hist[sid].counters <= config.max_rounds

\* ------------------------------------------------- the claims: breaker
\* C15: no step takes a circuit breaker from open straight to closed.  A
\* breaker that becomes closed was half_open, and an open breaker becomes
\* half_open only in a can_proceed call made reset_timeout_seconds or more
\* after its last failure.
C15_NoOpenToClosed ==
    [][/\ breaker.state = "open" => breaker'.state # "closed"
       /\ (breaker.state # "closed" /\ breaker'.state = "closed")
              => breaker.state = "half_open"
       /\ (breaker.state = "open" /\ breaker'.state = "half_open")
              => /\ breakerLog'.op = "can_proceed"
                 /\ breaker.last_failure_time # NoTime
                 /\ clock - breaker.last_failure_time
                       >= reset_timeout_seconds]_cbVars

\* a breaker that opened, became half_open and closed again
C15_Witness ==
    /\ breaker.state = "closed"
    /\ \E i, j, k \in DOMAIN breaker.state_changes :
          /\ i < j /\ j < k
          /\ breaker.state_changes[i][2] = "open"
          /\ breaker.state_changes[j][2] = "half_open"
          /\ breaker.state_changes[k][2] = "closed"

\* C16: a half_open breaker closes in the record_success call that is the
\* half_open_success_threshold-th (3rd) since it became half_open and in no
\* other call: earlier successes leave it half_open, successes recorded
\* while it was open are not counted, and a record_failure in half_open
\* makes it open.
C16_HalfOpenClosesOnThirdSuccess ==
    [][breaker.state = "half_open" =>
         /\ breaker.consecutive_successes = breakerLog.streak
         /\ breakerLog.streak < half_open_success_threshold
         /\ breakerLog'.op = "record_success" =>
               IF breakerLog.streak + 1 = half_open_success_threshold
               THEN breaker'.state = "closed"
               ELSE breaker'.state = "half_open"
         /\ breakerLog'.op = "record_failure" => breaker'.state = "open"
         /\ breakerLog'.op \in {"can_proceed", "advance"}
               => breaker'.state = "half_open"
      ]_cbVars

\* a breaker closed by its third success in half_open, after a success that
\* was recorded while it was open
C16_Witness ==
    /\ breakerLog.op = "record_success"
    /\ breaker.state = "closed"
    /\ Len(breaker.state_changes) >= 3

\* ------------------------------------------------- the claims: variants
VariantIdsKnown == DOMAIN variants

ActiveVariants == {vid \in VariantIdsKnown : variants[vid].status = "active"}

\* C11: at most one variant has status active, every active variant is the
\* one current_active_variant names, and current_active_variant never
\* names a variant that is not active.
C11_SingleActiveVariant ==
    /\ Cardinality(ActiveVariants) <= 1
    /\ \A vid \in ActiveVariants : current_active_variant = vid
    /\ current_active_variant # 0 => current_active_variant \in ActiveVariants

\* the status changes of the rollout path
LegalSteps ==
    {<<"proposed", "testing">>, <<"testing", "canary">>,
     <<"canary", "paused">>, <<"paused", "canary">>, <<"canary", "active">>}

\* the last status of variant vid before its present one
StatusBefore(vid) == statusPath[vid][Len(statusPath[vid]) - 1]

\* C12: the statuses an active variant has had are proposed, testing,
\* canary, any number of times paused and canary again, then active, with
\* no stage left out; a start_testing call that returned found its variant
\* proposed, a start_canary call testing, a ramp_canary call canary and a
\* resume_variant call paused.
C12_ActiveOnlyAlongRolloutPath ==
    /\ \A vid \in VariantIdsKnown :
          LET path == statusPath[vid]
          IN /\ path[1] = "proposed"
             /\ path[Len(path)] = variants[vid].status
             /\ variants[vid].status = "active" =>
                   \A i \in 1..(Len(path) - 1) :
                      <<path[i], path[i + 1]>> \in LegalSteps
    /\ emLog.op = "start_testing" =>
          /\ variants[emLog.id].status = "testing"
          /\ StatusBefore(emLog.id) = "proposed"
    /\ emLog.op = "start_canary" =>
          /\ variants[emLog.id].status = "canary"
          /\ StatusBefore(emLog.id) = "testing"
    /\ emLog.op = "resume_variant" =>
          /\ variants[emLog.id].status = "canary"
          /\ StatusBefore(emLog.id) = "paused"
    /\ emLog.op = "ramp_canary" =>
          \/ variants[emLog.id].status = "canary"
          \/ /\ variants[emLog.id].status \in {"paused", "active"}
             /\ StatusBefore(emLog.id) = "canary"

\* a variant that became active after having been paused and resumed
C12_Witness ==
    \E vid \in VariantIdsKnown :
       /\ variants[vid].status = "active"
       /\ \E i \in DOMAIN statusPath[vid] : statusPath[vid][i] = "paused"

\* variant vid is rolled back for reason in this step
RolledBackFor(vid, reason) ==
    /\ variants'[vid].status = "rolled_back"
    /\ variants'[vid].rollback_count = variants[vid].rollback_count + 1
    /\ variants'[vid].rollback_reason = reason

C14_RolledBackIsTerminal ==
    [][\A vid \in VariantIdsKnown :
          variants[vid].status = "rolled_back" =>
             /\ variants'[vid].status = "rolled_back"
             /\ variants'[vid].rollback_count = variants[vid].rollback_count
             /\ variants'[vid].rollback_reason = variants[vid].rollback_reason
      ]_vars

\* the reasons whose condition holds for variant v with breaker circuit at
\* time t
AutoRollbackConditions(v, circuit, t) ==
    LET recent == LastN(v.metrics_history, 3)
        three == Len(v.metrics_history) >= 3
    IN {r \in {"circuit_open", "anomaly_detected", "success_rate_low",
               "latency_high", "error_spike", "trend_degrading"} :
          CASE r = "circuit_open" -> circuit.state = "open"
            [] r = "anomaly_detected" -> is_flapping(circuit, t)
            [] r = "success_rate_low" ->
                  three /\ SumOf(recent, "success_rate") < 3 * min_success_rate
            [] r = "latency_high" ->
                  three /\ SumOf(recent, "latency_ms") > 3 * max_latency_ms
            [] r = "error_spike" ->
                  three /\ SumOf(recent, "error_count")
                              > 3 * error_spike_threshold
            [] OTHER -> analyze_trend(v) = "degrading"}

\* C17: when track_performance has returned and one of the conditions
\* holds (breaker open, breaker flapping, average success_rate of the last
\* three metrics below min_success_rate, their average latency above
\* max_latency_ms, their summed error_count above three times
\* error_spike_threshold, degrading trend over the last five), the variant
\* is rolled_back and its metadata.rollback_reason names a condition that
\* holds.
C17_AutoRollbackWhenConditionHolds ==
    emLog.op = "track_performance" =>
       LET v == variants[emLog.id]
           conds == AutoRollbackConditions(
                        v, circuit_breakers[emLog.id], clock)
       IN conds # {} =>
             /\ v.status = "rolled_back"
             /\ v.rollback_reason \in conds

\* a canary rolled back at its third metrics with success_rate 0.5, and
\* rolled back again for flapping once its breaker has changed state five
\* times within the hour and is not open
C17_Witness ==
    /\ emLog.op = "track_performance"
    /\ emLog.ret = "anomaly_detected"
    /\ SubSeq(variants[emLog.id].metrics_history, 1, 3)
          = <<Low, Low, Low>>
    /\ statusPath[emLog.id]
          = <<"proposed", "testing", "canary", "rolled_back">>
    /\ variants[emLog.id].rollback_reason = "anomaly_detected"

\* the ramp decision the thresholds give for the average avg
Band(avg) ==
    CASE AtLeast(avg, fast_ramp_threshold) -> "fast"
      [] AtLeast(avg, slow_ramp_threshold) -> "normal"
      [] AtLeast(avg, pause_threshold) -> "slow"
      [] OTHER -> "pause"

\* the ramp_canary call of this step did what decision asks for
Ramped(vid, decision) ==
    LET v == variants[vid]
        w == variants'[vid]
        step == CASE decision = "fast" -> 4
                  [] decision = "normal" -> 2
                  [] OTHER -> 1
    IN IF decision = "pause"
       THEN /\ w.status = "paused"
            /\ w.canary_percentage = v.canary_percentage
            /\ w.pause_count = v.pause_count + 1
       ELSE /\ w.canary_percentage = Min(10, v.canary_percentage + step)
            /\ w.pause_count = v.pause_count
            /\ w.status = IF w.canary_percentage >= 10 THEN "active" ELSE "canary"

\* this step is a ramp_canary call without force, adaptive ramping enabled
AdaptiveRamp ==
    /\ emLog'.op = "ramp_canary"
    /\ emLog'.arg = FALSE
    /\ emConfig.adaptive_ramp_enabled

\* C18 as stated: a ramp_canary call without force on a canary that has
\* metrics acts on their average success rate over the last five: at or
\* above fast_threshold it adds 2/steps, at or above slow_threshold
\* 1/steps, at or above pause_threshold 0.5/steps, and below it adds
\* nothing, pauses the variant and counts the pause.
C18_AdaptiveRampFollowsAverage ==
    [][(AdaptiveRamp /\ variants[emLog'.id].metrics_history # << >>)
          => Ramped(emLog'.id,
                    Band(get_average_success_rate(
                             variants[emLog'.id], 5)))]_vars

\* C18 as the code has it: the average decides once the variant has three
\* metrics or more; with fewer the call adds 1/steps whatever they are.
C18_AdaptiveRampFromThreeMetrics ==
    [][AdaptiveRamp =>
          LET v == variants[emLog'.id]
          IN Ramped(emLog'.id,
                    IF Len(v.metrics_history) >= 3
                    THEN Band(get_average_success_rate(v, 5))
                    ELSE "normal")]_vars

\* a canary paused by a ramp_canary call without force
C18_Witness ==
    /\ emLog.op = "ramp_canary"
    /\ emLog.ret = "pause"
    /\ variants[emLog.id].status = "paused"
    /\ Len(variants[emLog.id].metrics_history) >= 3

\* variant vid is rolled back in this step
RollbackOf(vid) ==
    /\ emLog'.id = vid
    /\ \/ emLog'.op = "rollback"
       \/ emLog'.op = "track_performance" /\ emLog'.ret # None

\* C19: a rollback appends exactly one VariantOutcome to the learning
\* history when the variant had left proposed, and none when it was still
\* proposed.
C19_OutcomeOnlyForStartedVariants ==
    [][\A vid \in VariantIdsKnown :
          RollbackOf(vid) =>
             IF variants[vid].status = "proposed"
             THEN outcomes' = outcomes
             ELSE /\ Len(outcomes') = Len(outcomes) + 1
                  /\ outcomes'[Len(outcomes')].variant_id = vid]_vars

\* ------------------------------------------------- the claims: experiments
\* C20: once ended_at of an experiment is set, by end_experiment or by the
\* significance check, a record_experiment_metrics call changes neither
\* its status nor its winner, confidence or ended_at.
C20_EndedExperimentIsTerminal ==
    [][\A eid \in DOMAIN experiments :
          (experiments[eid].ended_at # NoTime
             /\ emLog'.op = "record_experiment_metrics")
          => /\ experiments'[eid].status = experiments[eid].status
             /\ experiments'[eid].winner = experiments[eid].winner
             /\ experiments'[eid].confidence = experiments[eid].confidence
             /\ experiments'[eid].ended_at = experiments[eid].ended_at]_vars

\* ------------------------------------------------- the claims: orchestrator

\* the number of the five strategies whose result in s has the status
StrategiesWith(s, status) ==
    Cardinality({n \in Strategies : s.alignment_results[n].status = status})

\* C21: with the gate enabled a collaboration session passes the gate only
\* if at least required_aligned_strategies of the five strategies are aligned
\* and the score is at least min_alignment_confidence; a session that does
\* not pass is failed with the reason "Insufficient alignment" and has no
\* negotiation session.
C21_GateNeedsBothConditions ==
    orchConfig.require_alignment_for_negotiation =>
        \A sid \in DOMAIN collaborations :
            LET s == collaborations[sid]
                sufficient ==
                    /\ StrategiesWith(s, "aligned") >= required_aligned_strategies
                    /\ ScoreAtLeast(s.alignment_score, min_alignment_confidence)
            IN IF sufficient
               THEN s.state # "failed"
               ELSE /\ s.state = "failed"
                    /\ s.failure_reason = "Insufficient alignment"
                    /\ s.negotiation_session = 0

\* C22: the alignment score of a collaboration session is
\* (aligned + 0.5 * partial) / 5, counted over the five strategies only.
C22_ScoreOverFiveStrategies ==
    \A sid \in DOMAIN collaborations :
        LET s == collaborations[sid]
        IN 10 * s.alignment_score.num
               = (2 * StrategiesWith(s, "aligned")
                    + StrategiesWith(s, "partial")) * s.alignment_score.den

\* C23: the mutations of an operation are complete before its hooks run: a
\* callback of on_session_ready finds the new collaboration session with
\* get_session, in the state active.
C23_SessionReadyHookFindsSession ==
    \A i \in 1..Len(orchLog.seen) :
        orchLog.seen[i].event = "on_session_ready" =>
            orchLog.seen[i].found /\ orchLog.seen[i].state = "active"

\* the callbacks of the event that do not raise
Observers(event) ==
    Cardinality({i \in 1..Len(hooks[event]) : hooks[event][i] = "observer"})

\* one of the callbacks of the event raises and a later one does not
RaiserBeforeObserver(event) ==
    \E i, j \in 1..Len(hooks[event]) :
        i < j /\ hooks[event][i] = "raiser" /\ hooks[event][j] = "observer"

\* C24: an Exception of a hook is swallowed: the call returns, every other
\* callback of the events it triggers has run, and the collaboration session
\* is stored in the state the alignment gate decides (initiate_collaboration)
\* or with the new variant pending (propose_protocol_evolution).
C24_HookExceptionsSwallowed ==
    /\ orchLog.op = "initiate_collaboration" =>
           /\ ~orchLog.raised
           /\ orchLog.id = Len(collaborations)
           /\ LET s == collaborations[orchLog.id]
              IN IF InsufficientAlignment(s.alignment_results)
                 THEN /\ s.state = "failed"
                      /\ Len(orchLog.seen) = Observers("on_alignment_complete")
                 ELSE /\ s.state = "active"
                      /\ s.negotiation_session \in DOMAIN sessions
                      /\ Len(orchLog.seen) =
                             Observers("on_alignment_complete")
                                 + Observers("on_negotiation_complete")
                                 + Observers("on_session_ready")
    /\ orchLog.op = "propose_protocol_evolution" =>
           /\ ~orchLog.raised
           /\ Len(orchLog.seen) = Observers("on_evolution_triggered")
           /\ collaborations[orchLog.id].pending_variants # << >>

C24_Witness ==
    /\ orchLog.op = "initiate_collaboration"
    /\ RaiserBeforeObserver("on_alignment_complete")
    /\ \E i \in 1..Len(orchLog.seen) :
           orchLog.seen[i].event = "on_alignment_complete"
    /\ collaborations[orchLog.id].state = "active"

\* ------------------------------------------------- the claims: concurrency

\* C25: the operations of the engine exclude each other, so concurrent
\* calls of check_all_timeouts never raise and archive an expired session
\* exactly once.
C25_ConcurrentSweepsArchiveOnce ==
    /\ \A t \in Threads : threads[t].pc # "raised"
    /\ \A sid \in SessionIds :
           Cardinality({i \in 1..Len(completed) :
                           completed[i].session_id = sid}) <= 1

\* ------------------------------------------------- the claims: workflows

\* the steps of execution e with the status
StepsWith(e, status) == {i \in 1..Len(e.steps) : e.steps[i].status = status}

\* C26: a completed execution has every step completed; a failed one has
\* exactly one failed step, with every earlier step completed and every
\* later one pending; and a failed execution never changes again.
C26_ExecutionsMatchTheirSteps ==
    [][\A eid \in DOMAIN executions' :
          LET e == executions'[eid]
          IN /\ e.status = "completed" =>
                    StepsWith(e, "completed") = 1..Len(e.steps)
             /\ e.status = "failed" =>
                    \E i \in 1..Len(e.steps) :
                        /\ StepsWith(e, "failed") = {i}
                        /\ StepsWith(e, "completed") = 1..(i - 1)
                        /\ StepsWith(e, "pending") = (i + 1)..Len(e.steps)
             /\ (eid \in DOMAIN executions
                 /\ executions[eid].status = "failed") =>
                    e = executions[eid]]_vars

C26_Witness ==
    \E a, b \in DOMAIN executions :
        /\ executions[a].status = "completed"
        /\ executions[b].status = "failed"
        /\ executions[b].workflow_name = "protocol_evolution"
        /\ executions[b].current_step_index > 0

\* C27: when the decide step of the evolution workflow has run, either
\* should_rollback was true, the variant is rolled back and the execution
\* has the status rolled_back, or the variant is active.
C27_DecideRollsBackOrActivates ==
    (wfLog.op = "execute_step" /\ wfLog.step_id = "decide"
     /\ wfLog.outcome = "done") =>
        LET e == executions[wfLog.id]
            variant == variants[e.context.variant_id]
        IN IF e.context.decision = "rollback"
           THEN variant.status = "rolled_back" /\ e.status = "rolled_back"
           ELSE variant.status = "active"

\* C28: the onboarding of a new agent, started with a1 and a2 registered
\* and run until it no longer runs, has the status completed and all five
\* steps completed.
C28_OnboardingCompletes ==
    \A eid \in DOMAIN executions :
        LET e == executions[eid]
        IN (e.workflow_name = "multi_agent_onboarding"
            /\ e.status # "running") =>
               /\ e.status = "completed"
               /\ StepsWith(e, "completed") = 1..5

\* ------------------------------------------------- the claims: tools
\* C29: on a freshly initiated session (awaiting_response), the tool
\* respond_to_negotiation called by the responder with "counter" and params
\* moves the session to awaiting_finalization with these counter params;
\* accept_counter_proposal by the initiator then moves it to finalizing, and
\* finalize_negotiation by the initiator to finalized, with final_params
\* equal to the counter params.
C29_CounterAcceptFinalizeByTools ==
    [][\A sid \in DOMAIN sessions :
          LET s == sessions[sid]
              t == toolLog'
          IN (toolLog' # toolLog /\ t.session_id = sid) =>
                /\ ( /\ t.tool = "respond_to_negotiation"
                     /\ t.response = "counter" /\ t.params # {}
                     /\ t.agent_id = s.responder_id
                     /\ s.state = "awaiting_response" )
                   => /\ sessions'[sid].state = "awaiting_finalization"
                      /\ sessions'[sid].counter_params = from_dict(t.params)
                /\ ( /\ t.tool = "accept_counter_proposal"
                     /\ t.agent_id = s.initiator_id
                     /\ s.state = "awaiting_finalization"
                     /\ s.counter_params # NoParams )
                   => sessions'[sid].state = "finalizing"
                /\ ( /\ t.tool = "finalize_negotiation"
                     /\ t.agent_id = s.initiator_id
                     /\ s.state = "finalizing"
                     /\ s.counter_params # NoParams )
                   => /\ sessions'[sid].state = "finalized"
                      /\ sessions'[sid].final_params = s.counter_params
      ]_vars

\* ------------------------------------------------- the claims: event bus
\* the events of evs are in the order in which they were published
InPublicationOrder(evs) ==
    \A i, j \in DOMAIN evs : i < j => evs[i].event_id < evs[j].event_id

\* C30: the ring of recent events never holds more events than max_history;
\* a publish to a full ring drops the oldest event and appends the new one;
\* the ring holds the latest published events in the order of publication,
\* and what get_recent_events returns are events of the ring in that order.
C30_RingBoundedAndOrdered ==
    [][LET ring == event_bus.events
           after == event_bus'.events
           capacity == event_bus.max_history
       IN /\ Len(after) <= capacity
          /\ after = SubSeq(published', Len(published') - Len(after) + 1,
                            Len(published'))
          /\ InPublicationOrder(after)
          /\ (published' # published /\ Len(ring) = capacity /\ capacity > 0)
                => after = Append(Tail(ring), published'[Len(published')])
          /\ busLog'.op = "get_recent_events"
                => /\ InPublicationOrder(busLog'.ret)
                   /\ \A i \in DOMAIN busLog'.ret :
                          \E j \in DOMAIN after : busLog'.ret[i] = after[j]
      ]_vars

\* a full ring that has dropped events, read by get_recent_events
C30_Witness ==
    /\ event_bus.max_history > 1
    /\ Len(event_bus.events) = event_bus.max_history
    /\ Len(published) > event_bus.max_history
    /\ busLog.op = "get_recent_events"
    /\ Len(busLog.ret) = event_bus.max_history

\* the callbacks subscribed for event: those of _subscribers and those
\* subscribed for its flow type
SubscribedFor(event) ==
    {event_bus.subscribers[i].callback : i \in DOMAIN event_bus.subscribers}
        \cup {event_bus.type_subscribers[event.flow_type][i] :
                i \in DOMAIN event_bus.type_subscribers[event.flow_type]}

\* C31: when a callback raises during publish, publish still returns
\* normally, the event is in the ring (of a bus that keeps events), and
\* every callback subscribed for the event has been invoked.
C31_FailingCallbackIsSuppressed ==
    busLog.op \in {"publish", "publish_raised"} =>
        LET event == published[Len(published)]
        IN /\ busLog.op = "publish"
           /\ event_bus.max_history > 0 =>
                  event_bus.events[Len(event_bus.events)] = event
           /\ \A cb \in SubscribedFor(event) :
                  \E i \in DOMAIN busLog.notified :
                      busLog.notified[i].callback = cb

\* a publish during which the first callback raised and a second one was
\* invoked after it
C31_Witness ==
    /\ busLog.op = "publish"
    /\ Len(busLog.notified) = 2
    /\ busLog.notified[1].raised /\ ~busLog.notified[2].raised
    /\ event_bus.events # << >>

\* the places of a thread at which it holds the lock; its next statement
\* there needs nothing from another thread and releases the lock
InsideLock == {"append", "snapshot", "callback_body", "body"}

\* C32: the callbacks of a publish are invoked only after its event has been
\* appended and the lock released: a thread that dispatches or runs a
\* callback does not hold the lock, so the lock is held only by threads
\* inside a "with" block - other threads are not kept waiting by a callback
\* that runs or blocks, and a callback can itself take the lock for
\* subscribe or unsubscribe.
C32_CallbacksRunOutsideLock ==
    /\ \A t \in BusThreads :
          busThreads[t].pc \in {"dispatch", "callback"} =>
              /\ busLock.owner # t
              /\ \E i \in DOMAIN published : published[i] = busThreads[t].event
    /\ busLock.owner # None => busThreads[busLock.owner].pc \in InsideLock
    /\ \A t \in BusThreads :
          busThreads[t].pc = "callback_body" => busLock.owner = t

\* one thread is inside subscribe or unsubscribe, called by the callback it
\* runs, while the callback of the other thread has not returned
C32_Witness ==
    /\ busThreads["t1"].pc = "callback_body"
    /\ busThreads["t2"].pc = "callback"
    /\ busLock.owner = "t1"

\* ------------------------------------------------- the claims: persistence
\* the events of the log files, in the order of the files
RECURSIVE Logged_events(_)
Logged_events(files) ==
    IF files = << >> THEN << >> ELSE Head(files) \o Logged_events(Tail(files))

\* C33: after flush or stop has returned the buffer is empty and the log
\* files hold every event given to write_event so far - the event published
\* by stop included - once each and in the order in which they were given.
C33_FlushDrainsBuffer ==
    mgrLog.op \in {"flush", "stop"} =>
        /\ persistence.buffer = << >>
        /\ Logged_events(persistence.files) = handed
        /\ mgrLog.op = "stop" =>
               /\ handed # << >>
               /\ handed[Len(handed)] = published[Len(published)]

\* stop has returned after events were buffered and a log file was rotated
C33_Witness ==
    /\ mgrLog.op = "stop"
    /\ persistence.buffer_size = 2
    /\ Len(handed) > 2
    /\ Len(persistence.files) > 1

\* ------------------------------------------------- the claims: bounded lists
\* C34: the event ring, the rollback points, the completed sessions, the
\* alerts, the snapshots and the metrics_history of every variant each have
\* a bound on their length that holds after any sequence of operations: the
\* capacity of the list where it has one, ListCap where it has none.
C34_ListsAreBounded ==
    /\ Len(event_bus.events) <= event_bus.max_history
    /\ Len(rollback_points) <= emConfig.max_rollback_points
    /\ Len(alerting.alerts) <= MaxAlerts
    /\ Len(snapshots) <= MaxSnapshots
    /\ Len(completed) <= ListCap
    /\ \A vid \in DOMAIN variants :
           Len(variants[vid].metrics_history) <= ListCap

\* ------------------------------------------------- the claims: rate limiter
\* no thread is inside acquire
LimiterQuiet == \A t \in LimiterThreads : limThreads[t] = "idle"

\* C35: whatever the threads that call acquire(1) do, the tokens stay
\* between 0 and the capacity; every call that has returned is counted once,
\* as acquired if it returned True and as denied if it returned False; and
\* as long as no refill has added a token, at most capacity calls have
\* returned True, and of the calls that have returned exactly capacity did
\* if there were that many.
C35_LimiterGrantsCapacity ==
    /\ limiter.tokens >= 0 /\ limiter.tokens <= limiter.capacity
    /\ LimiterQuiet =>
           /\ limiter.metrics.acquired = limLog.granted
           /\ limiter.metrics.denied = limLog.refused
    /\ ~limLog.refilled =>
           /\ limLog.granted <= limiter.capacity
           /\ LimiterQuiet =>
                  limLog.granted
                      = Min(limiter.capacity, limLog.granted + limLog.refused)

\* two threads have made four calls on a limiter of capacity 2 that was not
\* refilled: two were denied
C35_Witness ==
    /\ LimiterQuiet /\ ~limLog.refilled
    /\ limiter.capacity = 2
    /\ limLog.granted = 2 /\ limLog.refused = 2

\* ------------------------------------------------- the claims: agreement
\* C36: a finalize_session that follows an accept_counter of the initiator
\* yields the counter-proposal the initiator accepted: the responder cannot
\* replace counter_params between the two calls.
C36_FinalIsAcceptedCounter ==
    (/\ lastOp.op = "finalize_session"
     /\ hist[lastOp.sid].accepted # NoParams)
        => SessionOf(lastOp.sid).final_params = hist[lastOp.sid].accepted

EvolvedCanary(vid) ==
    /\ variants[vid].status = "canary"
    /\ orchLog'.op = "evolve_session_protocol"
    /\ emLog'.op \in {"rollback", "ramp_canary"}
    /\ emLog'.id = vid
    /\ variants'[vid] # variants[vid]

\* C38: evolve_session_protocol on a variant in canary rolls it back when
\* should_rollback reports that a rollback is needed, and only then;
\* otherwise it ramps the canary, and records the variant as the session's
\* active_variant_id when it becomes active.
C38_EvolveRollsBackOnlyWhenNeeded ==
    [][\A vid \in DOMAIN variants :
          EvolvedCanary(vid) =>
              IF should_rollback(variants[vid], circuit_breakers[vid],
                                 clock)[1]
              THEN variants'[vid].status = "rolled_back"
              ELSE /\ emLog'.op = "ramp_canary"
                   /\ variants'[vid].status # "rolled_back"
                   /\ variants'[vid].status = "active" =>
                          collaborations'[orchLog'.id].active_variant_id
                              = vid]_vars

\* ------------------------------------------------- the claims: sessions
\* C39: a collaboration session that has been completed or failed is never
\* active again, and one that has failed is never completed, whatever
\* calls of suspend_session, resume_session and close_session follow.
C39_EndedSessionsStayEnded ==
    \A sid \in DOMAIN collaborations :
        LET s == collaborations[sid]
        IN /\ s.ended # None => s.state # "active"
           /\ s.ended = "failed" => s.state # "completed"

\* ------------------------------------------------- the claims: cache
\* C40: get(key) returns the value that set(key, value) stored without a
\* ttl, as long as no call has invalidated or overwritten it, whatever
\* ttl the key was stored with before and however much time has passed.
C40_ValueWithoutTtlIsKept ==
    [][(/\ cacheLog'.op = "get"
        /\ cache_manager'.metrics # cache_manager.metrics
        /\ cacheLog'.key \in DOMAIN cacheLog.kept)
          => cacheLog'.ret = cacheLog.kept[cacheLog'.key]]_vars

====
